---- MODULE Spec2Model ----
(***************************************************************************)
(* forestui: the worktree orchestration of ForestApp (app.py) over         *)
(* GitService (services/git.py), with the in-memory Catalog, the           *)
(* filesystem and git's own worktree bookkeeping as three separate stores. *)
(*                                                                         *)
(* Strings that the code takes apart (ref names, paths) are sequences of   *)
(* tokens: "origin/x" is <<"origin", "/", "x">>, so that startswith and    *)
(* slicing are computed, and a path is the sequence of its components.     *)
(***************************************************************************)
EXTENDS Integers, Sequences, FiniteSets, TLC

\* Number of Worktree ids (uuid4 values) one run may draw.
MaxIds == 2

-----------------------------------------------------------------------------
(* Universe of inputs *)

WtNames == {"a", "b"}

RepoName == "app"
ForestDir == <<"forest">>

\* settings.get_forest_path() / repo.name / name
WorktreePath(name) == ForestDir \o <<RepoName, name>>

AllPaths == {WorktreePath(n) : n \in WtNames}

NoPath == <<>>

\* Path.parent and Path.name, and parent / name
Parent(p) == SubSeq(p, 1, Len(p) - 1)
BaseName(p) == p[Len(p)]
Join(dir, name) == Append(dir, name)

\* The remotes configured in the repository, its remote-tracking refs and
\* the names local branches can have.
Remotes == {"origin"}
RemoteRefs == {<<"origin", "/", "main">>, <<"origin", "/", "x">>}
LocalNames == {<<"main">>, <<"dev">>, <<"feature-x">>, <<"x">>}
PrimaryBranch == <<"main">>

NoRef == <<>>        \* None / "" for a branch argument, and a detached HEAD
NoUpstream == <<>>

ExitCodes == {0, 1}

Ids == 1 .. MaxIds
NoId == 0

-----------------------------------------------------------------------------
VARIABLES
    catalog,     \* Repository.worktrees: sequence of Worktree records
    selection,   \* Selection.worktree_id (NoId: none)
    nextId,      \* the next Worktree id to be drawn
    fs,          \* filesystem: path -> admin id of the worktree directory there (0: nothing)
    gitWt,       \* git's worktree records: admin id -> [path, branch]
    gitBr,       \* git's local branches: name -> [exists, upstream]
    hpc,         \* position of the message handler being run by the app
    hreq,        \* the message it handles
    cw,          \* frame of GitService.create_worktree
    rn,          \* locals of the rename handlers: old_path, new_path, old_name
    hlog,        \* commands and collaborator calls issued for the current message
    hres,        \* how the handler of the last message ended
    wpc,         \* position of the delete worker
    wreq,        \* what the worker captured: flow, worktree id, path
    wlog,        \* git commands the worker's remove_worktree call issued
    wres,        \* how the worker's remove_worktree call ended
    im,          \* frame of ForestApp._import_existing_worktrees
    lw,          \* frame of GitService.list_worktrees
    aw,          \* call of Repository.active_worktrees: position, return value
    sidebar,     \* what Sidebar._populate_tree last put in the tree
    now,         \* the clock datetime.now(UTC) reads
    lb,          \* call of GitService.list_branches: inputs, git's answers, result
    issue_modal, \* fields of CreateWorktreeFromIssueModal and its messages
    add_modal,   \* fields of AddWorktreeModal and what it posted
    tmux,        \* the windows of the tmux session and what the service did
    settings     \* SettingsService._settings and the settings file

stores == <<catalog, selection, nextId, fs, gitWt, gitBr>>
handler == <<hpc, hreq, cw, rn, hlog, hres>>
worker == <<wpc, wreq, wlog, wres>>
listing == <<im, lw, aw, sidebar, now>>
ui == <<lb, issue_modal, add_modal, tmux, settings>>
vars == <<catalog, selection, nextId, fs, gitWt, gitBr,
          hpc, hreq, cw, rn, hlog, hres, wpc, wreq, wlog, wres, im, lw, aw,
          sidebar, now, lb, issue_modal, add_modal, tmux, settings>>

-----------------------------------------------------------------------------
(* Strings *)

\* str.startswith
StartsWith(s, p) == Len(s) >= Len(p) /\ SubSeq(s, 1, Len(p)) = p

\* f"{remote}/"
RemotePrefix(r) == <<r, "/">>

-----------------------------------------------------------------------------
(* Catalog: AppState over Repository.worktrees *)

Worktree(id, name, branch, path) ==
    [id |-> id, name |-> name, branch |-> branch, path |-> path,
     is_archived |-> FALSE]

NoWorktree == Worktree(NoId, "", NoRef, NoPath)

CatalogIds(cat) == {cat[i].id : i \in 1 .. Len(cat)}

find_worktree(cat, id) ==
    IF id \in CatalogIds(cat)
    THEN cat[CHOOSE i \in 1 .. Len(cat) : cat[i].id = id]
    ELSE NoWorktree

add_worktree(cat, wt) == Append(cat, wt)

IsNot(id, w) == w.id # id

remove_worktree_entry(cat, id) ==
    LET keep(w) == IsNot(id, w) IN SelectSeq(cat, keep)

update_worktree(cat, id, name, path) ==
    [i \in 1 .. Len(cat) |->
        IF cat[i].id = id
        THEN [cat[i] EXCEPT !.name = name, !.path = path]
        ELSE cat[i]]

\* update_worktree(id, branch=...)
update_worktree_branch(cat, id, branch) ==
    [i \in 1 .. Len(cat) |->
        IF cat[i].id = id THEN [cat[i] EXCEPT !.branch = branch] ELSE cat[i]]

-----------------------------------------------------------------------------
(* The git binary behind _run_git: what each command does when it exits 0   *)
(* and when it is able to.  Any command may also exit nonzero (a lock held  *)
(* by another writer, a refusal), and then it changes nothing.              *)

GitCmd(cmd, force, track, b, path, ref, code) ==
    [cmd |-> cmd, force |-> force, track |-> track, b |-> b,
     path |-> path, ref |-> ref, code |-> code]

NoEntry == [path |-> NoPath, branch |-> NoRef]
NoBranch == [exists |-> FALSE, upstream |-> NoUpstream]

Registered(k) == gitWt[k].path # NoPath

CheckedOut(b) ==
    \/ b = PrimaryBranch
    \/ \E k \in Ids : Registered(k) /\ gitWt[k].branch = b

IsLocal(r) == r \in LocalNames /\ gitBr[r].exists
Resolves(r) == IsLocal(r) \/ r \in RemoteRefs

FreeAdmin == {k \in Ids : ~Registered(k) /\ \A p \in AllPaths : fs[p] # k}
FreshAdmin == CHOOSE k \in FreeAdmin : \A j \in FreeAdmin : k <= j

\* git worktree add [--track] [-b <b>] <path> [<ref>]
GitAddCan(c) ==
    /\ fs[c.path] = 0
    /\ \A k \in Ids : gitWt[k].path # c.path
    /\ FreeAdmin # {}
    /\ IF c.b # NoRef
       THEN /\ c.b \in LocalNames
            /\ ~gitBr[c.b].exists
            /\ c.ref = NoRef \/ Resolves(c.ref)
       ELSE /\ Resolves(c.ref)
            /\ IsLocal(c.ref) => ~CheckedOut(c.ref)

\* The branch the new worktree is on: the -b branch, the local branch named,
\* or none (detached HEAD) for any other commit-ish.
GitAddBranch(c) ==
    IF c.b # NoRef THEN c.b
    ELSE IF IsLocal(c.ref) THEN c.ref
    ELSE NoRef

\* branch.autoSetupMerge: a new branch started from a remote-tracking ref
\* gets that ref as its upstream; --track asks for it in any case.
GitAddUpstream(c) ==
    IF c.ref # NoRef /\ (c.track \/ (c.ref \in RemoteRefs /\ ~IsLocal(c.ref)))
    THEN c.ref
    ELSE NoUpstream

GitAddWt(c) == [gitWt EXCEPT ![FreshAdmin] = [path |-> c.path, branch |-> GitAddBranch(c)]]
GitAddBr(c) ==
    IF c.b # NoRef
    THEN [gitBr EXCEPT ![c.b] = [exists |-> TRUE, upstream |-> GitAddUpstream(c)]]
    ELSE gitBr
GitAddFs(c) == [fs EXCEPT ![c.path] = FreshAdmin]

\* git branch --unset-upstream <b>
GitUnsetCan(b) == b \in LocalNames /\ gitBr[b].exists /\ gitBr[b].upstream # NoUpstream
GitUnsetBr(b) == [gitBr EXCEPT ![b].upstream = NoUpstream]

\* git worktree remove [--force] <path>: the record registered at the path
\* goes, and the directory with it when it is still there.
GitRemoveCan(p) == \E k \in Ids : gitWt[k].path = p /\ p # NoPath
GitRemoveWt(p) == [k \in Ids |-> IF gitWt[k].path = p THEN NoEntry ELSE gitWt[k]]
GitRemoveFs(p) ==
    IF p \in AllPaths /\ fs[p] # 0 /\ gitWt[fs[p]].path = p
    THEN [fs EXCEPT ![p] = 0]
    ELSE fs

\* git worktree repair <path>: the directory's backlink names a record, and
\* that record is made to point at the path.
GitRepairCan(p) == p \in AllPaths /\ fs[p] # 0 /\ Registered(fs[p])
GitRepairWt(p) == [gitWt EXCEPT ![fs[p]].path = p]

\* git branch -m <old> <new>, run in a worktree's directory: the local branch
\* takes the new name, with its upstream, in every worktree that has it out.
GitRenameCan(cwd, old, new) ==
    /\ Registered(fs[cwd])
    /\ old \in LocalNames /\ gitBr[old].exists
    /\ new \in LocalNames /\ ~gitBr[new].exists
GitRenameBr(old, new) == [gitBr EXCEPT ![new] = gitBr[old], ![old] = NoBranch]
GitRenameWt(old, new) ==
    [k \in Ids |-> IF Registered(k) /\ gitWt[k].branch = old
                   THEN [gitWt[k] EXCEPT !.branch = new]
                   ELSE gitWt[k]]

\* git branch -a --format=%(refname:short), as list_branches returns it
list_branches == {b \in LocalNames : gitBr[b].exists} \cup RemoteRefs

-----------------------------------------------------------------------------
(* Inputs of the create requests *)

NewBranchInputs == {<<"feature-x">>}
BranchInputs == {<<"feature-x">>, <<"dev">>, <<"origin", "/", "x">>}
NoBase == NoRef
BaseInputs == {NoBase, <<"origin", "/", "main">>}

\* `git remote` lists the remotes in the order of the configuration.
RemoteList == <<"origin">>

Request(op, name, branch, new_branch, base, id, new_name) ==
    [op |-> op, name |-> name, branch |-> branch, new_branch |-> new_branch,
     base |-> base, id |-> id, new_name |-> new_name]

NoRequest == Request("none", "", NoRef, FALSE, NoBase, NoId, "")

CreateFrame(pc, path, branch, new_branch, base_branch) ==
    [pc |-> pc, path |-> path, branch |-> branch, new_branch |-> new_branch,
     base_branch |-> base_branch, remotes |-> <<>>, code |-> 0, raised |-> FALSE]

NoFrame == CreateFrame("idle", NoPath, NoRef, FALSE, NoBase)

\* None, which no str equals
None == <<"None">>

\* git.py, class WorktreeInfo(NamedTuple)
WorktreeInfo(path, head, branch) == [path |-> path, head |-> head, branch |-> branch]

ImportFrame(pc, source_path) ==
    [pc |-> pc, source_path |-> source_path, worktrees |-> <<>>, i |-> 0,
     notified |-> 0]

NoImport == ImportFrame("idle", NoPath)

ParseFrame(pc, stdout) ==
    [pc |-> pc, stdout |-> stdout, lines |-> <<>>, i |-> 0, current_path |-> None,
     current_head |-> None, current_branch |-> None, worktrees |-> <<>>,
     raised |-> FALSE]

NoParse == ParseFrame("idle", <<>>)

NoCall == [pc |-> "idle", result |-> <<>>]

NoTree == [active |-> <<>>, archived |-> <<>>]

NoRename == [old_path |-> NoPath, new_path |-> NoPath, old_name |-> NoRef]

-----------------------------------------------------------------------------
(* GitService.create_worktree *)

\* any(base_branch.startswith(f"{r}/") for r in remotes)
is_remote_base(base_branch, remotes) ==
    \E i \in 1 .. Len(remotes) : StartsWith(base_branch, RemotePrefix(remotes[i]))

\* The for loop with break: the prefix of the first remote that matches, or None.
remote_prefix(branch, remotes) ==
    LET hits == {i \in 1 .. Len(remotes) : StartsWith(branch, RemotePrefix(remotes[i]))}
    IN  IF hits = {} THEN <<>>
        ELSE RemotePrefix(remotes[CHOOSE i \in hits : \A j \in hits : i <= j])

\* branch[len(remote_prefix):]
local_branch(branch, prefix) == SubSeq(branch, Len(prefix) + 1, Len(branch))

\* The one `worktree add` the branch policy chooses (exit code not yet known).
create_worktree_args_without_base(f) ==
    GitCmd("add", FALSE, FALSE, IF f.new_branch THEN f.branch ELSE NoRef, f.path,
           IF f.new_branch THEN NoRef ELSE f.branch, 0)
create_worktree_args(f) ==
    IF f.new_branch
    THEN GitCmd("add", FALSE, FALSE, f.branch, f.path, f.base_branch, 0)
    ELSE IF remote_prefix(f.branch, f.remotes) # <<>>
         THEN GitCmd("add", FALSE, TRUE,
                     local_branch(f.branch, remote_prefix(f.branch, f.remotes)),
                     f.path, f.branch, 0)
         ELSE GitCmd("add", FALSE, FALSE, NoRef, f.path, f.branch, 0)

\* if code == 0 and base_branch: ... if is_remote_base:
create_worktree_unsets_any_base(f, code) == f.new_branch /\ code = 0 /\ f.base_branch # NoBase
create_worktree_unsets(f, code) ==
    /\ f.new_branch
    /\ code = 0
    /\ f.base_branch # NoBase
    /\ is_remote_base(f.base_branch, f.remotes)

\* if code != 0: raise GitError(f"Failed to create worktree: {stderr}")
create_worktree_never_raises(code) == FALSE
create_worktree_raises(code) == code # 0

\* ForestApp.on_add_worktree_modal_worktree_created after create_worktree
\* returned or raised: the Worktree is added and selected, or the error is
\* notified.  Other callers of create_worktree are not continued here.
create_worktree_return(code) ==
    IF hpc = "create"
    THEN /\ hpc' = "idle"
         /\ cw' = NoFrame
         /\ IF ~create_worktree_raises(code)
            THEN /\ catalog' = add_worktree(catalog,
                        Worktree(nextId, hreq.name, hreq.branch, cw.path))
                 /\ selection' = nextId
                 /\ nextId' = nextId + 1
                 /\ hres' = "created"
            ELSE /\ hres' = "GitError"
                 /\ UNCHANGED <<catalog, selection, nextId>>
    ELSE /\ cw' = [cw EXCEPT !.pc = "done", !.code = code,
                             !.raised = create_worktree_raises(code)]
         /\ UNCHANGED <<catalog, selection, nextId, hpc, hres>>

\* remotes = await self._safe_list_remotes(repo_path)
create_worktree_remotes ==
    /\ cw.pc = "remotes"
    /\ \E code \in ExitCodes :
        /\ cw' = [cw EXCEPT !.pc = "add",
                            !.remotes = IF code = 0 THEN RemoteList ELSE <<>>]
        /\ hlog' = Append(hlog, GitCmd("remote", FALSE, FALSE, NoRef, NoPath, NoRef, code))
    /\ UNCHANGED <<stores, hpc, hreq, rn, hres, worker, listing, ui>>

\* The `worktree add` of either branch, and the end of the call unless the
\* upstream is to be unset.
create_worktree_add ==
    /\ cw.pc = "add"
    /\ \E code \in ExitCodes :
        LET c == [create_worktree_args(cw) EXCEPT !.code = code] IN
        /\ code = 0 => GitAddCan(c)
        /\ hlog' = Append(hlog, c)
        /\ IF code = 0
           THEN /\ gitWt' = GitAddWt(c)
                /\ gitBr' = GitAddBr(c)
                /\ fs' = GitAddFs(c)
           ELSE UNCHANGED <<gitWt, gitBr, fs>>
        /\ IF create_worktree_unsets(cw, code)
           THEN /\ cw' = [cw EXCEPT !.pc = "unset", !.code = code]
                /\ UNCHANGED <<catalog, selection, nextId, hpc, hres>>
           ELSE create_worktree_return(code)
    /\ UNCHANGED <<hreq, rn, worker, listing, ui>>

\* git branch --unset-upstream <branch>, its exit code not looked at
create_worktree_unset ==
    /\ cw.pc = "unset"
    /\ \E code \in ExitCodes :
        /\ code = 0 => GitUnsetCan(cw.branch)
        /\ hlog' = Append(hlog,
                GitCmd("unset_upstream", FALSE, FALSE, cw.branch, cw.path, NoRef, code))
        /\ gitBr' = IF code = 0 THEN GitUnsetBr(cw.branch) ELSE gitBr
    /\ create_worktree_return(cw.code)
    /\ UNCHANGED <<fs, gitWt, hreq, rn, worker, listing, ui>>

-----------------------------------------------------------------------------
(* The create requests *)

\* AddWorktreeModal._create_worktree: name and branch given, an existing
\* branch is one of the listed ones, the path does not exist yet.
AddWorktreeModal_create_worktree ==
    /\ hpc = "idle"
    /\ nextId <= MaxIds
    /\ \E name \in WtNames, new_branch \in BOOLEAN, branch \in BranchInputs :
        /\ new_branch => branch \in NewBranchInputs
        /\ ~new_branch => branch \in list_branches
        /\ fs[WorktreePath(name)] = 0
        /\ hreq' = Request("create", name, branch, new_branch, NoBase, NoId, "")
    /\ hpc' = "create_msg"
    /\ hlog' = <<>>
    /\ hres' = "posted"
    /\ UNCHANGED <<stores, cw, rn, worker, listing, ui>>

\* CreateWorktreeFromIssueModal.on_button_pressed, btn-create: always a new
\* branch, with the base branch of the input (one of the listed ones, or empty).
CreateWorktreeFromIssueModal_on_button_pressed ==
    /\ hpc = "idle"
    /\ nextId <= MaxIds
    /\ \E name \in WtNames, branch \in NewBranchInputs, base \in BaseInputs :
        /\ base # NoBase => base \in list_branches
        /\ hreq' = Request("create", name, branch, TRUE, base, NoId, "")
    /\ hpc' = "create_msg"
    /\ hlog' = <<>>
    /\ hres' = "posted"
    /\ UNCHANGED <<stores, cw, rn, worker, listing, ui>>

\* ForestApp.on_add_worktree_modal_worktree_created up to its first await:
\* create_worktree(repo.source_path, worktree_path, event.branch,
\* event.new_branch), the base branch left at its default.
on_add_worktree_modal_worktree_created ==
    /\ hpc = "create_msg"
    /\ hpc' = "create"
    /\ cw' = CreateFrame("remotes", WorktreePath(hreq.name), hreq.branch,
                         hreq.new_branch, NoBase)
    /\ UNCHANGED <<stores, hreq, rn, hlog, hres, worker, listing, ui>>

-----------------------------------------------------------------------------
(* Selection *)

\* ForestApp.on_sidebar_worktree_selected: the worktree picked in the sidebar
\* becomes the selection, and the detail pane shows it.
on_sidebar_worktree_selected ==
    /\ hpc = "idle"
    /\ \E id \in CatalogIds(catalog) :
        /\ id # selection
        /\ selection' = id
    /\ UNCHANGED <<catalog, nextId, fs, gitWt, gitBr, handler, worker, listing, ui>>

-----------------------------------------------------------------------------
(* Delete: the two workers, and GitService.remove_worktree *)

Captured(flow, id, path) == [flow |-> flow, id |-> id, path |-> path]
NoCapture == Captured("none", NoId, NoPath)

\* The part both workers share: the worktree is looked up, and the worker
\* waits for the confirmation prompt.
delete_begin(flow, id) ==
    /\ wpc = "idle"
    /\ find_worktree(catalog, id) # NoWorktree
    /\ wreq' = Captured(flow, id, find_worktree(catalog, id).path)
    /\ wpc' = "confirm"
    /\ wlog' = <<>>
    /\ wres' = "running"
    /\ UNCHANGED <<stores, handler, listing, ui>>

\* ForestApp.on_worktree_detail_delete_worktree_requested: the Delete button
\* of the detail pane, which shows the selected worktree.
on_worktree_detail_delete_worktree_requested == delete_begin("request", selection)

\* ForestApp.action_delete with a worktree selected.
action_delete == delete_begin("action", selection)

\* if confirmed: ... in both workers
goes_on_unconfirmed(confirmed) == TRUE
goes_on(confirmed) == confirmed

\* ConfirmDeleteModal: Delete dismisses with True, Cancel and escape with False.
ConfirmDeleteModal_dismiss ==
    /\ wpc = "confirm"
    /\ \E confirmed \in BOOLEAN :
        /\ wres' = IF confirmed THEN "confirmed" ELSE "cancelled"
        /\ wpc' = IF goes_on(confirmed) THEN "plain" ELSE "idle"
    /\ UNCHANGED <<stores, handler, wreq, wlog, listing, ui>>

\* What follows `with contextlib.suppress(GitError): await remove_worktree(..)`
\* in both workers: self._state.remove_worktree(id).
delete_finish(raised) ==
    /\ catalog' = remove_worktree_entry(catalog, wreq.id)
    /\ wpc' = "idle"
    /\ wres' = IF raised THEN "GitError" ELSE "removed"

\* if code != 0: ... else: raise GitError(f"Failed to remove worktree: {stderr}")
\* in the call with force=True
remove_worktree_never_raises(code) == FALSE
remove_worktree_raises(code) == code # 0

\* GitService.remove_worktree(repo, path), force=False: `worktree remove <path>`.
\* Exit 0 returns; anything else calls remove_worktree(.., force=True).
remove_worktree ==
    /\ wpc = "plain"
    /\ \E code \in ExitCodes :
        /\ code = 0 => GitRemoveCan(wreq.path)
        /\ wlog' = Append(wlog, GitCmd("remove", FALSE, FALSE, NoRef, wreq.path, NoRef, code))
        /\ IF code = 0
           THEN /\ gitWt' = GitRemoveWt(wreq.path)
                /\ fs' = GitRemoveFs(wreq.path)
                /\ delete_finish(FALSE)
           ELSE /\ wpc' = "force"
                /\ UNCHANGED <<catalog, fs, gitWt, wres>>
    /\ UNCHANGED <<selection, nextId, gitBr, handler, wreq, listing, ui>>

\* The recursive call, force=True: `worktree remove --force <path>`.  Exit 0
\* returns; anything else raises GitError, which the worker suppresses.
remove_worktree_force ==
    /\ wpc = "force"
    /\ \E code \in ExitCodes :
        /\ code = 0 => GitRemoveCan(wreq.path)
        /\ wlog' = Append(wlog, GitCmd("remove", TRUE, FALSE, NoRef, wreq.path, NoRef, code))
        /\ IF code = 0
           THEN /\ gitWt' = GitRemoveWt(wreq.path)
                /\ fs' = GitRemoveFs(wreq.path)
           ELSE UNCHANGED <<fs, gitWt>>
        /\ delete_finish(remove_worktree_raises(code))
    /\ UNCHANGED <<selection, nextId, gitBr, handler, wreq, listing, ui>>

-----------------------------------------------------------------------------
(* Rename *)

\* WorktreeDetail.on_input_submitted, input-worktree-name: a non-empty value
\* other than the shown worktree's name posts RenameWorktreeRequested.
WorktreeDetail_on_input_submitted ==
    /\ hpc = "idle"
    /\ find_worktree(catalog, selection) # NoWorktree
    /\ \E new_name \in WtNames :
        /\ new_name # find_worktree(catalog, selection).name
        /\ hreq' = Request("rename", "", NoRef, FALSE, NoBase, selection, new_name)
    /\ hpc' = "rename_msg"
    /\ hlog' = <<>>
    /\ hres' = "posted"
    /\ UNCHANGED <<stores, cw, rn, worker, listing, ui>>

FsCall(cmd, old, new, code) == GitCmd(cmd, FALSE, FALSE, NoRef, old, new, code)

\* old_path.rename(new_path): the directory moves, or OSError (which a
\* missing source always gives).
rename_dir(old_path, new_path, ok) ==
    /\ ok => fs[old_path] # 0
    /\ fs' = IF ok
             THEN [fs EXCEPT ![new_path] = fs[old_path], ![old_path] = 0]
             ELSE fs

\* if new_path.exists(): notify("Path already exists"); return
destination_never_exists(new_path) == FALSE
destination_exists(new_path) == fs[new_path] # 0

\* try: old_path.rename(new_path) ... except (OSError, GitError): the await of
\* repair_worktree is reached only when the rename raised nothing.
rename_goes_on_always(ok) == "rename_repair"
rename_goes_on(ok) == IF ok THEN "rename_repair" ELSE "idle"

\* if code != 0: raise GitError(f"Failed to repair worktree: {stderr}")
repair_worktree_never_raises(code) == FALSE
repair_worktree_raises(code) == code # 0

\* ForestApp.on_worktree_detail_rename_worktree_requested up to its await:
\* lookup, the sibling path, the exists check, the directory rename.
on_worktree_detail_rename_worktree_requested ==
    /\ hpc = "rename_msg"
    /\ LET worktree == find_worktree(catalog, hreq.id)
           old_path == worktree.path
           new_path == Join(Parent(old_path), hreq.new_name)
       IN  IF worktree = NoWorktree
           THEN /\ hpc' = "idle"
                /\ hres' = "not_found"
                /\ UNCHANGED <<fs, rn, hlog>>
           ELSE IF destination_exists(new_path)
                THEN /\ hpc' = "idle"
                     /\ hres' = "refused"
                     /\ UNCHANGED <<fs, rn, hlog>>
                ELSE \E ok \in BOOLEAN :
                     /\ rename_dir(old_path, new_path, ok)
                     /\ hlog' = <<FsCall("rename", old_path, new_path, IF ok THEN 0 ELSE 1)>>
                     /\ hpc' = rename_goes_on(ok)
                     /\ hres' = IF ok THEN "posted" ELSE "OSError"
                     /\ rn' = IF ok
                              THEN [NoRename EXCEPT !.old_path = old_path,
                                                    !.new_path = new_path]
                              ELSE NoRename
    /\ UNCHANGED <<catalog, selection, nextId, gitWt, gitBr, hreq, cw, worker, listing, ui>>

\* self._claude_service.migrate_sessions(old_path, new_path) inside the try:
\* an exception it raises leaves the statements after it unexecuted.
migrate_sessions_never_raises(code) == FALSE
migrate_sessions_raises(code) == code # 0

\* GitService.repair_worktree(repo, new_path) and the rest of the handler:
\* exit 0 is followed by migrate_sessions(old, new) and, when that returned,
\* update_worktree(id, name, path); a nonzero exit raises GitError, which is
\* notified.
repair_worktree ==
    /\ hpc = "rename_repair"
    /\ \E code \in ExitCodes :
        LET c == GitCmd("repair", FALSE, FALSE, NoRef, rn.new_path, NoRef, code) IN
        /\ code = 0 => GitRepairCan(rn.new_path)
        /\ gitWt' = IF code = 0 THEN GitRepairWt(rn.new_path) ELSE gitWt
        /\ IF ~repair_worktree_raises(code)
           THEN \E mig \in ExitCodes :
                /\ hlog' = hlog \o
                     <<c, FsCall("migrate_sessions", rn.old_path, rn.new_path, mig)>>
                /\ IF ~migrate_sessions_raises(mig)
                   THEN /\ catalog' = update_worktree(catalog, hreq.id,
                                                      hreq.new_name, rn.new_path)
                        /\ hres' = "renamed"
                   ELSE /\ hres' = "MigrateError"
                        /\ UNCHANGED catalog
           ELSE /\ hlog' = Append(hlog, c)
                /\ hres' = "GitError"
                /\ UNCHANGED catalog
    /\ hpc' = "idle"
    /\ rn' = NoRename
    /\ UNCHANGED <<selection, nextId, fs, gitBr, hreq, cw, worker, listing, ui>>

-----------------------------------------------------------------------------
(* Rename branch *)

BranchNameInputs == {<<"x">>}

\* asyncio.create_subprocess_exec with a cwd that does not exist raises
\* FileNotFoundError before any process runs: the command has no exit code.
NotSpawned == 2

\* WorktreeDetail.on_input_submitted, input-branch-name: a non-empty value
\* other than the shown worktree's branch posts RenameBranchRequested.
WorktreeDetail_on_input_submitted_branch ==
    /\ hpc = "idle"
    /\ find_worktree(catalog, selection) # NoWorktree
    /\ \E new_branch \in BranchNameInputs :
        /\ new_branch # find_worktree(catalog, selection).branch
        /\ hreq' = Request("rename_branch", "", new_branch, FALSE, NoBase, selection, "")
    /\ hpc' = "branch_msg"
    /\ hlog' = <<>>
    /\ hres' = "posted"
    /\ UNCHANGED <<stores, cw, rn, worker, listing, ui>>

\* ForestApp.on_worktree_detail_rename_branch_requested up to its await: the
\* lookup, and the arguments of rename_branch read off the worktree.
on_worktree_detail_rename_branch_requested ==
    /\ hpc = "branch_msg"
    /\ LET worktree == find_worktree(catalog, hreq.id) IN
        IF worktree = NoWorktree
        THEN /\ hpc' = "idle"
             /\ hres' = "not_found"
             /\ UNCHANGED rn
        ELSE /\ hpc' = "branch_m"
             /\ rn' = [NoRename EXCEPT !.old_path = worktree.path,
                                       !.old_name = worktree.branch]
             /\ UNCHANGED hres
    /\ UNCHANGED <<stores, hreq, cw, hlog, worker, listing, ui>>

\* if code != 0: raise GitError(f"Failed to rename branch: {stderr}")
rename_branch_never_raises(code) == FALSE
rename_branch_raises(code) == code # 0

\* GitService.rename_branch(path, old, new) and the rest of the handler:
\* `branch -m old new` with the worktree's directory as cwd; exit 0 is
\* followed by update_worktree(id, branch=new), GitError is notified.
rename_branch ==
    /\ hpc = "branch_m"
    /\ LET old_name == rn.old_name
           new_name == hreq.branch
           cwd == rn.old_path
       IN  IF fs[cwd] = 0
           THEN /\ hlog' = <<GitCmd("branch_m", FALSE, FALSE, new_name, cwd,
                                    old_name, NotSpawned)>>
                /\ hres' = "OSError"
                /\ UNCHANGED <<catalog, gitWt, gitBr>>
           ELSE \E code \in ExitCodes :
                /\ code = 0 => GitRenameCan(cwd, old_name, new_name)
                /\ hlog' = <<GitCmd("branch_m", FALSE, FALSE, new_name, cwd,
                                    old_name, code)>>
                /\ gitBr' = IF code = 0 THEN GitRenameBr(old_name, new_name) ELSE gitBr
                /\ gitWt' = IF code = 0 THEN GitRenameWt(old_name, new_name) ELSE gitWt
                /\ IF ~rename_branch_raises(code)
                   THEN /\ catalog' = update_worktree_branch(catalog, hreq.id, new_name)
                        /\ hres' = "branch_renamed"
                   ELSE /\ hres' = "GitError"
                        /\ UNCHANGED catalog
    /\ hpc' = "idle"
    /\ rn' = NoRename
    /\ UNCHANGED <<selection, nextId, fs, hreq, cw, worker, listing, ui>>

-----------------------------------------------------------------------------
(* Import of the worktrees a repository already has *)

\* Number of linked worktrees one listing reports besides the primary checkout.
MaxListed == 2

\* Where the repository is, and a symlink that leads there.
SourcePath == <<"src", "app">>
SourceLink == <<"lnk", "app">>

\* Path.resolve(): symlinks followed
resolve(p) == IF p = SourceLink THEN SourcePath ELSE p

\* The characters of a path component, as far as they matter for a prefix.
Chars(c) == IF c = "forest-old" THEN <<"forest", "-old">> ELSE <<c>>

\* str(path) of an absolute path
RECURSIVE str(_)
str(p) == IF p = <<>> THEN <<>> ELSE str(Parent(p)) \o <<"/">> \o Chars(BaseName(p))

\* What `git worktree list` can report besides the primary checkout: a
\* worktree elsewhere on a branch, one elsewhere with a detached HEAD, one in
\* a directory next to the forest directory, one in the forest directory.
Linked ==
    { WorktreeInfo(<<"work", "wt1">>, <<"h1">>, <<"x">>),
      WorktreeInfo(<<"work", "wt2">>, <<"h2">>, None),
      WorktreeInfo(<<"forest-old", "b">>, <<"h3">>, <<"dev">>),
      WorktreeInfo(WorktreePath("a"), <<"h4">>, <<"feature-x">>) }

\* The primary checkout first, then linked worktrees, none listed twice.
Listings ==
    {<<WorktreeInfo(SourcePath, <<"h0">>, PrimaryBranch)>> \o l : l \in
        {l \in UNION {[1 .. n -> Linked] : n \in 0 .. MaxListed} :
            \A i, j \in 1 .. Len(l) : i # j => l[i] # l[j]}}

\* if Path(wt_info.path).resolve() == Path(repo.source_path).resolve(): continue
is_main_worktree(wt_info, source_path) == resolve(wt_info.path) = resolve(source_path)

\* if str(wt_path).startswith(str(forest_dir)): continue
in_forest_dir(wt_info) == StartsWith(str(wt_info.path), str(ForestDir))

\* branch = wt_info.branch or "HEAD"
branch_as_is(branch) == branch
branch_or_HEAD(branch) == IF branch = None \/ branch = <<>> THEN <<"HEAD">> ELSE branch

\* if code != 0: raise GitError(f"Failed to list worktrees: {stderr}")
list_worktrees_never_raises(code) == FALSE
list_worktrees_raises(code) == code # 0

\* worktrees = await self._git_service.list_worktrees(repo.source_path), and
\* the except clause when it raised.
import_list_worktrees ==
    /\ im.pc = "list"
    /\ \E code \in ExitCodes, worktrees \in Listings :
        /\ hlog' = Append(hlog, GitCmd("list", FALSE, FALSE, NoRef, im.source_path,
                                       NoRef, code))
        /\ IF list_worktrees_raises(code)
           THEN /\ im' = [im EXCEPT !.pc = "done"]
                /\ hres' = "GitError"
           ELSE /\ im' = [im EXCEPT !.pc = "loop", !.worktrees = worktrees, !.i = 1]
                /\ UNCHANGED hres
    /\ UNCHANGED <<stores, hpc, hreq, cw, rn, worker, lw, aw, sidebar, now, ui>>

\* One round of `for wt_info in worktrees`.  add_worktree may raise (the
\* Catalog is saved), with the entry added or not; nothing catches that, and
\* nothing takes back what the rounds before it added.
import_worktree ==
    /\ im.pc = "loop"
    /\ im.i <= Len(im.worktrees)
    /\ LET wt_info == im.worktrees[im.i]
           worktree == Worktree(nextId, BaseName(wt_info.path),
                                branch_or_HEAD(wt_info.branch), wt_info.path)
       IN  IF is_main_worktree(wt_info, im.source_path) \/ in_forest_dir(wt_info)
           THEN /\ im' = [im EXCEPT !.i = im.i + 1]
                /\ UNCHANGED <<catalog, nextId, hlog, hres>>
           ELSE \E ok \in BOOLEAN, added \in BOOLEAN :
                /\ ok => added
                /\ hlog' = Append(hlog, FsCall("add_worktree", wt_info.path, NoPath,
                                               IF ok THEN 0 ELSE 1))
                /\ catalog' = IF added THEN add_worktree(catalog, worktree) ELSE catalog
                /\ nextId' = nextId + 1
                /\ im' = IF ok THEN [im EXCEPT !.i = im.i + 1] ELSE [im EXCEPT !.pc = "done"]
                /\ hres' = IF ok THEN hres ELSE "Error"
    /\ UNCHANGED <<selection, fs, gitWt, gitBr, hpc, hreq, cw, rn, worker, lw, aw, sidebar, now, ui>>

\* After the loop: self.notify(f"Imported {len(worktrees) - 1} worktrees")
import_notify ==
    /\ im.pc = "loop"
    /\ im.i > Len(im.worktrees)
    /\ im' = [im EXCEPT !.pc = "done", !.notified = Len(im.worktrees) - 1]
    /\ hres' = "imported"
    /\ UNCHANGED <<stores, hpc, hreq, cw, rn, hlog, worker, lw, aw, sidebar, now, ui>>

-----------------------------------------------------------------------------
(* GitService.list_worktrees: the parser of `git worktree list --porcelain`. *)
(* A text is the sequence of its lines, a line the sequence of its tokens.   *)

\* Number of records in one listing text.
MaxGroups == 3

\* str.strip() of a line, and of a text
RECURSIVE lstrip(_)
lstrip(line) ==
    IF line # <<>> /\ Head(line) = " " THEN lstrip(Tail(line)) ELSE line
RECURSIVE rstrip(_)
rstrip(line) ==
    IF line # <<>> /\ line[Len(line)] = " "
    THEN rstrip(SubSeq(line, 1, Len(line) - 1))
    ELSE line
strip(line) == rstrip(lstrip(line))

RECURSIVE text_lstrip(_)
text_lstrip(text) ==
    IF text = <<>> THEN <<>>
    ELSE IF lstrip(Head(text)) = <<>> /\ Len(text) > 1 THEN text_lstrip(Tail(text))
    ELSE <<lstrip(Head(text))>> \o Tail(text)
RECURSIVE text_rstrip(_)
text_rstrip(text) ==
    IF text = <<>> THEN <<>>
    ELSE IF rstrip(text[Len(text)]) = <<>> /\ Len(text) > 1
         THEN text_rstrip(SubSeq(text, 1, Len(text) - 1))
    ELSE SubSeq(text, 1, Len(text) - 1) \o <<rstrip(text[Len(text)])>>

\* stdout.decode("utf-8").strip() in _run_git, then stdout.split("\n")
stdout_lines(text) == IF text = <<>> THEN << <<>> >> ELSE text_rstrip(text_lstrip(text))

\* line.startswith("worktree "), line[9:] and the like
starts_with_keyword(line, keyword) == StartsWith(line, <<keyword, " ">>)
after_keyword(line) == SubSeq(line, 3, Len(line))

\* str.replace("refs/heads/", ""): every occurrence goes
replace_refs_heads(s) ==
    LET other(token) == token # "refs/heads/" IN SelectSeq(s, other)

\* `if x`, for x: str | None
truthy(x) == x # None /\ x # <<>>

\* if current_path and current_head: worktrees.append(WorktreeInfo(...))
append_always(f) == TRUE
append_pending(f) == truthy(f.current_path) /\ truthy(f.current_head)

appended(f) ==
    IF append_pending(f)
    THEN Append(f.worktrees, WorktreeInfo(f.current_path, f.current_head, f.current_branch))
    ELSE f.worktrees

\* current_branch = None, when a `worktree ` line starts a record
branch_kept(f) == f.current_branch
branch_reset(f) == None

\* The body of `for line in stdout.split("\n")`
scan_line(f, raw) ==
    LET line == strip(raw) IN
    IF starts_with_keyword(line, "worktree")
    THEN [f EXCEPT !.worktrees = appended(f),
                   !.current_path = after_keyword(line),
                   !.current_head = None,
                   !.current_branch = branch_reset(f)]
    ELSE IF starts_with_keyword(line, "HEAD")
    THEN [f EXCEPT !.current_head = after_keyword(line)]
    ELSE IF starts_with_keyword(line, "branch")
    THEN [f EXCEPT !.current_branch = replace_refs_heads(after_keyword(line))]
    ELSE IF line = <<>> /\ truthy(f.current_path) /\ truthy(f.current_head)
    THEN [f EXCEPT !.worktrees = appended(f),
                   !.current_path = None,
                   !.current_head = None,
                   !.current_branch = None]
    ELSE f

\* The loop over all lines, and list_worktrees on a text that git printed
\* with exit code 0
RECURSIVE scan(_, _)
scan(f, lines) == IF lines = <<>> THEN f ELSE scan(scan_line(f, Head(lines)), Tail(lines))
list_worktrees(text) == appended(scan(ParseFrame("scan", text), stdout_lines(text)))

\* code, stdout, stderr = await self._run_git("worktree", "list", "--porcelain")
list_worktrees_run_git ==
    /\ lw.pc = "run"
    /\ \E code \in ExitCodes :
        lw' = IF list_worktrees_raises(code)
              THEN [lw EXCEPT !.pc = "done", !.raised = TRUE]
              ELSE [lw EXCEPT !.pc = "scan", !.lines = stdout_lines(lw.stdout), !.i = 1]
    /\ UNCHANGED <<stores, handler, worker, im, aw, sidebar, now, ui>>

list_worktrees_line ==
    /\ lw.pc = "scan"
    /\ lw.i <= Len(lw.lines)
    /\ lw' = [scan_line(lw, lw.lines[lw.i]) EXCEPT !.i = lw.i + 1]
    /\ UNCHANGED <<stores, handler, worker, im, aw, sidebar, now, ui>>

\* "Don't forget the last one", and return worktrees
list_worktrees_return ==
    /\ lw.pc = "scan"
    /\ lw.i > Len(lw.lines)
    /\ lw' = [lw EXCEPT !.pc = "done", !.worktrees = appended(lw)]
    /\ UNCHANGED <<stores, handler, worker, im, aw, sidebar, now, ui>>

-----------------------------------------------------------------------------
(* Repository.active_worktrees *)

\* Number of worktrees of the repository, and the range of their
\* sort_order and last_modified values.
MaxWorktrees == 3
MaxOrder == 1
MaxTime == 2

\* sort_order: int | None = None, None written as -1
NoOrder == -1

\* w.sort_order if w.sort_order is not None else float("inf"), compared
order_less(a, b) ==
    IF a = NoOrder THEN FALSE
    ELSE IF b = NoOrder THEN TRUE
    ELSE a < b

\* key=lambda w: (sort_order or inf, -last_modified.timestamp()), compared
key_less_by_order_only(v, w) == order_less(v.sort_order, w.sort_order)
key_less(v, w) ==
    \/ order_less(v.sort_order, w.sort_order)
    \/ /\ v.sort_order = w.sort_order
       /\ -v.last_modified < -w.last_modified

\* sorted(): stable, an element goes behind those of the same key before it
RECURSIVE insert(_, _)
insert(s, w) ==
    IF s = <<>> THEN <<w>>
    ELSE IF key_less(w, Head(s)) THEN <<w>> \o s
    ELSE <<Head(s)>> \o insert(Tail(s), w)
RECURSIVE sorted(_)
sorted(s) ==
    IF s = <<>> THEN <<>> ELSE insert(sorted(SubSeq(s, 1, Len(s) - 1)), s[Len(s)])

\* [w for w in self.worktrees if not w.is_archived]
is_active(w) == ~w.is_archived

active_worktrees(worktrees) == sorted(SelectSeq(worktrees, is_active))

active_worktrees_call ==
    /\ aw.pc = "call"
    /\ aw' = [pc |-> "done", result |-> active_worktrees(catalog)]
    /\ UNCHANGED <<stores, handler, worker, im, lw, sidebar, now, ui>>

-----------------------------------------------------------------------------
(* Repository.archived_worktrees, the sidebar that shows both lists, and the *)
(* Catalog mutations of AppState that change what they return.               *)

\* key=lambda w: -w.last_modified.timestamp(), compared
older_first(v, w) == v.last_modified < w.last_modified
recency_less(v, w) == -v.last_modified < -w.last_modified

\* [w for w in self.worktrees if w.is_archived]
archived(w) == w.is_archived

\* sorted(archived, key=...): stable, as in active_worktrees
archived_worktrees(worktrees) ==
    LET RECURSIVE ins(_, _)
        ins(s, w) ==
            IF s = <<>> THEN <<w>>
            ELSE IF recency_less(w, Head(s)) THEN <<w>> \o s
            ELSE <<Head(s)>> \o ins(Tail(s), w)
        RECURSIVE srt(_)
        srt(s) == IF s = <<>> THEN <<>> ELSE ins(srt(SubSeq(s, 1, Len(s) - 1)), s[Len(s)])
    IN  srt(SelectSeq(worktrees, archived))

\* Sidebar._populate_tree with show_archived set: the leaves below the
\* repository node, and those below the Archived node.
Sidebar_populate_tree(worktrees) ==
    [active |-> active_worktrees(worktrees), archived |-> archived_worktrees(worktrees)]

\* Worktree(name=, branch=, path=) with every default of the model
NewWorktree(id, name, branch, path) ==
    [id |-> id, name |-> name, branch |-> branch, path |-> path,
     is_archived |-> FALSE, sort_order |-> NoOrder, last_modified |-> now]

\* AppState.archive_worktree, unarchive_worktree: the flag, and last_modified
archive_worktree(cat, id) ==
    [i \in 1 .. Len(cat) |->
        IF cat[i].id = id
        THEN [cat[i] EXCEPT !.is_archived = TRUE, !.last_modified = now]
        ELSE cat[i]]
unarchive_worktree(cat, id) ==
    [i \in 1 .. Len(cat) |->
        IF cat[i].id = id
        THEN [cat[i] EXCEPT !.is_archived = FALSE, !.last_modified = now]
        ELSE cat[i]]

\* What every handler that changed the Catalog ends with: _refresh_sidebar()
refresh_sidebar(op) ==
    /\ sidebar' = Sidebar_populate_tree(catalog')
    /\ hreq' = Request(op, "", NoRef, FALSE, NoBase, NoId, "")
    /\ hres' = "refreshed"
    /\ UNCHANGED <<fs, gitWt, gitBr, hpc, cw, rn, hlog, worker, im, lw, aw, now, ui>>

\* add_worktree(repo_id, worktree) with a Worktree just made, then
\* select_worktree
Catalog_add_worktree ==
    /\ hpc = "idle"
    /\ nextId <= MaxWorktrees
    /\ \E name \in WtNames :
        catalog' = add_worktree(catalog,
                        NewWorktree(nextId, name, <<"dev">>, WorktreePath(name)))
    /\ selection' = nextId
    /\ nextId' = nextId + 1
    /\ refresh_sidebar("add")

\* remove_worktree(worktree_id)
Catalog_remove_worktree ==
    /\ hpc = "idle"
    /\ \E id \in CatalogIds(catalog) :
        /\ catalog' = remove_worktree_entry(catalog, id)
        /\ refresh_sidebar("remove")
    /\ UNCHANGED <<selection, nextId>>

\* The explicit reorder: a sort_order is assigned, or taken away
Catalog_reorder ==
    /\ hpc = "idle"
    /\ \E id \in CatalogIds(catalog), order \in {NoOrder} \cup (0 .. MaxOrder) :
        /\ find_worktree(catalog, id).sort_order # order
        /\ catalog' = [i \in 1 .. Len(catalog) |->
                IF catalog[i].id = id THEN [catalog[i] EXCEPT !.sort_order = order]
                ELSE catalog[i]]
        /\ refresh_sidebar("reorder")
    /\ UNCHANGED <<selection, nextId>>

\* ForestApp.on_worktree_detail_archive_worktree_requested: btn-archive is on
\* the detail pane of the selected worktree while it is not archived.
on_worktree_detail_archive_worktree_requested ==
    /\ hpc = "idle"
    /\ find_worktree(catalog, selection) # NoWorktree
    /\ ~find_worktree(catalog, selection).is_archived
    /\ catalog' = archive_worktree(catalog, selection)
    /\ refresh_sidebar("archive")
    /\ UNCHANGED <<selection, nextId>>

\* ForestApp.on_worktree_detail_unarchive_worktree_requested: btn-unarchive
\* is there while the worktree is archived.
on_worktree_detail_unarchive_worktree_requested ==
    /\ hpc = "idle"
    /\ find_worktree(catalog, selection) # NoWorktree
    /\ find_worktree(catalog, selection).is_archived
    /\ catalog' = unarchive_worktree(catalog, selection)
    /\ refresh_sidebar("unarchive")
    /\ UNCHANGED <<selection, nextId>>

\* if worktree.is_archived: unarchive_worktree(..) else: archive_worktree(..)
toggle_never_unarchives(worktree) == FALSE
toggle_unarchives(worktree) == worktree.is_archived

\* ForestApp.action_toggle_archive: nothing happens without a selected
\* worktree that the Catalog has.
action_toggle_archive ==
    /\ hpc = "idle"
    /\ selection # NoId
    /\ LET worktree == find_worktree(catalog, selection) IN
        /\ worktree # NoWorktree
        /\ catalog' = IF toggle_unarchives(worktree)
                      THEN unarchive_worktree(catalog, worktree.id)
                      ELSE archive_worktree(catalog, worktree.id)
    /\ refresh_sidebar("toggle_archive")
    /\ UNCHANGED <<selection, nextId>>

\* Time passes between two readings of the clock, or does not.
clock_advances ==
    /\ now < MaxTime
    /\ now' = now + 1
    /\ UNCHANGED <<stores, handler, worker, im, lw, aw, sidebar, ui>>

-----------------------------------------------------------------------------
(* The services and dialogs that are taken on their own, at rest *)

NoBranches == [pc |-> "idle", include_remote |-> TRUE, stdout |-> <<>>,
               remotes |-> <<>>, result |-> <<>>]
NoIssueModal == [pc |-> "closed"]
NoAddModal == [pc |-> "closed"]
NoTmux == [pc |-> "none", session |-> FALSE, windows |-> <<>>, selected |-> 0,
           last |-> [op |-> "none", name |-> "", returned |-> FALSE]]
NoSettings == [pc |-> "none"]

UiClosed ==
    /\ lb = NoBranches
    /\ issue_modal = NoIssueModal
    /\ add_modal = NoAddModal
    /\ tmux = NoTmux
    /\ settings = NoSettings

-----------------------------------------------------------------------------
(* The application *)

InitBranches ==
    [b \in LocalNames |->
        IF b = <<"main">> THEN [exists |-> TRUE, upstream |-> <<"origin", "/", "main">>]
        ELSE IF b = <<"dev">> THEN [exists |-> TRUE, upstream |-> NoUpstream]
        ELSE NoBranch]

Init ==
    /\ catalog = <<>>
    /\ selection = NoId
    /\ nextId = 1
    /\ fs = [p \in AllPaths |-> 0]
    /\ gitWt = [k \in Ids |-> NoEntry]
    /\ gitBr = InitBranches
    /\ hpc = "idle"
    /\ hreq = NoRequest
    /\ cw = NoFrame
    /\ rn = NoRename
    /\ hlog = <<>>
    /\ hres = "none"
    /\ wpc = "idle"
    /\ wreq = NoCapture
    /\ wlog = <<>>
    /\ wres = "none"
    /\ im = NoImport
    /\ lw = NoParse
    /\ aw = NoCall
    /\ sidebar = NoTree
    /\ now = 1
    /\ UiClosed

\* The application never passes a base branch to create_worktree, so the
\* upstream-unsetting step of create_worktree is taken only in SpecCreate.
Next ==
    \/ AddWorktreeModal_create_worktree
    \/ CreateWorktreeFromIssueModal_on_button_pressed
    \/ on_add_worktree_modal_worktree_created
    \/ create_worktree_remotes
    \/ create_worktree_add
    \/ on_sidebar_worktree_selected
    \/ on_worktree_detail_delete_worktree_requested
    \/ action_delete
    \/ ConfirmDeleteModal_dismiss
    \/ remove_worktree
    \/ remove_worktree_force
    \/ WorktreeDetail_on_input_submitted
    \/ on_worktree_detail_rename_worktree_requested
    \/ repair_worktree
    \/ WorktreeDetail_on_input_submitted_branch
    \/ on_worktree_detail_rename_branch_requested
    \/ rename_branch

Spec == Init /\ [][Next]_vars

-----------------------------------------------------------------------------
(* GitService.create_worktree called on its own, with every argument the     *)
(* signature allows.                                                         *)

InitCreate ==
    /\ catalog = <<>>
    /\ selection = NoId
    /\ nextId = 1
    /\ fs = [p \in AllPaths |-> 0]
    /\ gitWt = [k \in Ids |-> NoEntry]
    /\ \E has_x \in BOOLEAN :
        gitBr = [InitBranches EXCEPT ![<<"x">>] =
                    IF has_x THEN [exists |-> TRUE, upstream |-> NoUpstream] ELSE NoBranch]
    /\ hpc = "direct"
    /\ hreq = NoRequest
    /\ \E name \in WtNames, branch \in BranchInputs, new_branch \in BOOLEAN,
          base_branch \in BaseInputs \cup {<<"dev">>} :
        cw = CreateFrame("remotes", WorktreePath(name), branch, new_branch, base_branch)
    /\ rn = NoRename
    /\ hlog = <<>>
    /\ hres = "none"
    /\ wpc = "idle"
    /\ wreq = NoCapture
    /\ wlog = <<>>
    /\ wres = "none"
    /\ im = NoImport
    /\ lw = NoParse
    /\ aw = NoCall
    /\ sidebar = NoTree
    /\ now = 1
    /\ UiClosed

NextCreate ==
    \/ create_worktree_remotes
    \/ create_worktree_add
    \/ create_worktree_unset

SpecCreate == InitCreate /\ [][NextCreate]_vars

-----------------------------------------------------------------------------
(* ForestApp._import_existing_worktrees called on its own, for a repository  *)
(* given by either spelling of its path, the Catalog empty or not.           *)

AlreadyThere == Worktree(1, "old", <<"dev">>, <<"work", "old">>)

InitImport ==
    /\ \E cat \in {<<>>, <<AlreadyThere>>} :
        /\ catalog = cat
        /\ nextId = Len(cat) + 1
    /\ selection = NoId
    /\ fs = [p \in AllPaths |-> 0]
    /\ gitWt = [k \in Ids |-> NoEntry]
    /\ gitBr = InitBranches
    /\ hpc = "import"
    /\ hreq = NoRequest
    /\ cw = NoFrame
    /\ rn = NoRename
    /\ hlog = <<>>
    /\ hres = "none"
    /\ wpc = "idle"
    /\ wreq = NoCapture
    /\ wlog = <<>>
    /\ wres = "none"
    /\ \E source_path \in {SourcePath, SourceLink} :
        im = ImportFrame("list", source_path)
    /\ lw = NoParse
    /\ aw = NoCall
    /\ sidebar = NoTree
    /\ now = 1
    /\ UiClosed

NextImport ==
    \/ import_list_worktrees
    \/ import_worktree
    \/ import_notify

SpecImport == InitImport /\ [][NextImport]_vars

-----------------------------------------------------------------------------
(* GitService.list_worktrees called on its own, git printing any of these    *)
(* texts: records in full, records cut short, lines of other kinds.          *)

WorktreeLine(path) == <<"worktree", " ">> \o path
HeadLine(hash) == <<"HEAD", " ", hash>>
BranchLine(name) == <<"branch", " ", "refs/heads/">> \o name

Records ==
    { <<WorktreeLine(<<"/p">>), HeadLine("h1"), BranchLine(<<"x">>)>>,
      <<WorktreeLine(<<"/q">>), HeadLine("h2")>>,
      <<WorktreeLine(<<"/q">>), HeadLine("h2"),
        BranchLine(<<"f", "/", "refs/heads/", "y">>)>>,
      <<WorktreeLine(<<"/p", " ">>), HeadLine("h1"), BranchLine(<<"x">>)>>,
      <<WorktreeLine(<<"/r">>), <<"bare">>>>,
      <<HeadLine("h3")>>,
      <<BranchLine(<<"z">>)>> }

\* Records one after the other, a blank line after each but, maybe, the last.
RECURSIVE Text(_, _)
Text(records, newline_at_end) ==
    IF records = <<>> THEN <<>>
    ELSE IF Len(records) = 1 /\ ~newline_at_end THEN Head(records)
    ELSE Head(records) \o << <<>> >> \o Text(Tail(records), newline_at_end)

InitParse ==
    /\ catalog = <<>>
    /\ selection = NoId
    /\ nextId = 1
    /\ fs = [p \in AllPaths |-> 0]
    /\ gitWt = [k \in Ids |-> NoEntry]
    /\ gitBr = InitBranches
    /\ hpc = "list_worktrees"
    /\ hreq = NoRequest
    /\ cw = NoFrame
    /\ rn = NoRename
    /\ hlog = <<>>
    /\ hres = "none"
    /\ wpc = "idle"
    /\ wreq = NoCapture
    /\ wlog = <<>>
    /\ wres = "none"
    /\ im = NoImport
    /\ \E n \in 0 .. MaxGroups, newline_at_end \in BOOLEAN :
       \E records \in [1 .. n -> Records] :
        lw = ParseFrame("run", Text(records, newline_at_end))
    /\ aw = NoCall
    /\ sidebar = NoTree
    /\ now = 1
    /\ UiClosed

NextParse ==
    \/ list_worktrees_run_git
    \/ list_worktrees_line
    \/ list_worktrees_return

SpecParse == InitParse /\ [][NextParse]_vars

-----------------------------------------------------------------------------
(* Repository.active_worktrees called on a repository with any worktrees.    *)

InitActive ==
    /\ \E n \in 0 .. MaxWorktrees :
       \E is_archived \in [1 .. n -> BOOLEAN],
          sort_order \in [1 .. n -> {NoOrder} \cup (0 .. MaxOrder)],
          last_modified \in [1 .. n -> 1 .. MaxTime] :
        /\ catalog = [i \in 1 .. n |->
                [id |-> i, name |-> "w", branch |-> <<"dev">>, path |-> <<"work", "w">>,
                 is_archived |-> is_archived[i], sort_order |-> sort_order[i],
                 last_modified |-> last_modified[i]]]
        /\ nextId = n + 1
    /\ selection = NoId
    /\ fs = [p \in AllPaths |-> 0]
    /\ gitWt = [k \in Ids |-> NoEntry]
    /\ gitBr = InitBranches
    /\ hpc = "active_worktrees"
    /\ hreq = NoRequest
    /\ cw = NoFrame
    /\ rn = NoRename
    /\ hlog = <<>>
    /\ hres = "none"
    /\ wpc = "idle"
    /\ wreq = NoCapture
    /\ wlog = <<>>
    /\ wres = "none"
    /\ im = NoImport
    /\ lw = NoParse
    /\ aw = [NoCall EXCEPT !.pc = "call"]
    /\ sidebar = NoTree
    /\ now = 1
    /\ UiClosed

NextActive == active_worktrees_call

SpecActive == InitActive /\ [][NextActive]_vars

-----------------------------------------------------------------------------
(* The Catalog under the mutations of AppState, the sidebar refreshed after  *)
(* each of them.                                                             *)

InitCatalog ==
    /\ catalog = <<>>
    /\ selection = NoId
    /\ nextId = 1
    /\ fs = [p \in AllPaths |-> 0]
    /\ gitWt = [k \in Ids |-> NoEntry]
    /\ gitBr = InitBranches
    /\ hpc = "idle"
    /\ hreq = NoRequest
    /\ cw = NoFrame
    /\ rn = NoRename
    /\ hlog = <<>>
    /\ hres = "none"
    /\ wpc = "idle"
    /\ wreq = NoCapture
    /\ wlog = <<>>
    /\ wres = "none"
    /\ im = NoImport
    /\ lw = NoParse
    /\ aw = NoCall
    /\ sidebar = NoTree
    /\ now = 1
    /\ UiClosed

NextCatalog ==
    \/ Catalog_add_worktree
    \/ Catalog_remove_worktree
    \/ Catalog_reorder
    \/ on_sidebar_worktree_selected
    \/ on_worktree_detail_archive_worktree_requested
    \/ on_worktree_detail_unarchive_worktree_requested
    \/ action_toggle_archive
    \/ clock_advances

SpecCatalog == InitCatalog /\ [][NextCatalog]_vars

-----------------------------------------------------------------------------
(* Everything of the application at rest, for a service or dialog taken on   *)
(* its own.                                                                  *)

AppAtRest ==
    /\ catalog = <<>>
    /\ nextId = 1
    /\ selection = NoId
    /\ fs = [p \in AllPaths |-> 0]
    /\ gitWt = [k \in Ids |-> NoEntry]
    /\ gitBr = InitBranches
    /\ hpc = "idle"
    /\ hreq = NoRequest
    /\ cw = NoFrame
    /\ rn = NoRename
    /\ hlog = <<>>
    /\ hres = "none"
    /\ wpc = "idle"
    /\ wreq = NoCapture
    /\ wlog = <<>>
    /\ wres = "none"
    /\ im = NoImport
    /\ lw = NoParse
    /\ aw = NoCall
    /\ sidebar = NoTree
    /\ now = 1

-----------------------------------------------------------------------------
(* GitService.list_branches.  A line of git's answer is a sequence of        *)
(* tokens, none of them the beginning of another, so that comparing token    *)
(* by token is comparing character by character.                             *)

\* What `git branch -a --format=%(refname:short)` prints, in git's order:
\* refs/heads/* first, refs/remotes/* behind them.  The symbolic ref
\* refs/remotes/origin/HEAD is printed as 'origin/HEAD' or, by other
\* versions of git, as 'origin'.
LocalLines == << <<"dev">>, <<"feature", "/", "x">>, <<"x">> >>
RemoteLines == << <<"origin", "/", "feature", "/", "x">>, <<"origin", "/", "main">> >>
HeadSpellings == {<<"origin", "/", "HEAD">>, <<"origin">>}

\* The lines of `all` the mask keeps, in their order.
RECURSIVE Masked(_, _)
Masked(all, mask) ==
    IF all = <<>> THEN <<>>
    ELSE (IF Head(mask) THEN <<Head(all)>> ELSE <<>>) \o Masked(Tail(all), Tail(mask))

\* stdout.split("\n") of the stripped output: the empty output is one empty line
BranchOutputs ==
    { IF t = <<>> THEN << <<>> >> ELSE t : t \in
        { Masked(LocalLines, m) \o h \o Masked(RemoteLines, r) :
            m \in [1 .. Len(LocalLines) -> BOOLEAN],
            r \in [1 .. Len(RemoteLines) -> BOOLEAN],
            h \in {<<>>} \cup {<<sp>> : sp \in HeadSpellings} } }

\* line.endswith("/HEAD")
endswith_HEAD(line) == Len(line) >= 2 /\ SubSeq(line, Len(line) - 1, Len(line)) = <<"/", "HEAD">>

\* is_remote = any(line.startswith(prefix) for prefix in remote_prefixes)
is_remote(line, remotes) ==
    \E i \in 1 .. Len(remotes) : StartsWith(line, <<remotes[i], "/">>)

\* The order of str: by the first character that differs, a prefix first.
Ord(token) ==
    CASE token = "/" -> 0 [] token = "HEAD" -> 1 [] token = "dev" -> 2
      [] token = "feature" -> 3 [] token = "main" -> 4 [] token = "origin" -> 5
      [] token = "x" -> 6
RECURSIVE str_less(_, _)
str_less(a, b) ==
    IF b = <<>> THEN FALSE
    ELSE IF a = <<>> THEN TRUE
    ELSE IF Head(a) # Head(b) THEN Ord(Head(a)) < Ord(Head(b))
    ELSE str_less(Tail(a), Tail(b))

\* The loop over the lines and `return sorted(branches)`.
list_branches_result(stdout, remotes, include_remote) ==
    LET remote_names == {remotes[i] : i \in 1 .. Len(remotes)}
        kept(line) ==
            /\ ~(line = <<>> \/ endswith_HEAD(line))
            /\ ~(\E r \in remote_names : line = <<r>>)
            /\ is_remote(line, remotes) => include_remote
        RECURSIVE ins(_, _)
        ins(l, e) ==
            IF l = <<>> THEN <<e>>
            ELSE IF str_less(e, Head(l)) THEN <<e>> \o l
            ELSE <<Head(l)>> \o ins(Tail(l), e)
        RECURSIVE srt(_)
        srt(l) == IF l = <<>> THEN <<>> ELSE ins(srt(SubSeq(l, 1, Len(l) - 1)), l[Len(l)])
    IN  srt(SelectSeq(stdout, kept))

BranchesCall(pc, include_remote, stdout) ==
    [pc |-> pc, include_remote |-> include_remote, stdout |-> stdout,
     remotes |-> <<>>, result |-> <<>>]

\* remotes = await self._safe_list_remotes(path) if include_remote else []
list_branches_remotes ==
    /\ lb.pc = "remotes"
    /\ \E code \in ExitCodes :
        /\ ~lb.include_remote => code = 0
        /\ lb' = [lb EXCEPT !.pc = "branch",
                            !.remotes = IF lb.include_remote /\ code = 0
                                        THEN RemoteList ELSE <<>>]
    /\ UNCHANGED <<stores, handler, worker, listing, issue_modal, add_modal, tmux, settings>>

\* The `git branch -a` command, the loop over its lines and the return.
list_branches_branch ==
    /\ lb.pc = "branch"
    /\ \E code \in ExitCodes :
        lb' = IF code # 0
              THEN [lb EXCEPT !.pc = "GitError"]
              ELSE [lb EXCEPT !.pc = "returned",
                              !.result = list_branches_result(lb.stdout, lb.remotes,
                                                              lb.include_remote)]
    /\ UNCHANGED <<stores, handler, worker, listing, issue_modal, add_modal, tmux, settings>>

InitListBranches ==
    /\ AppAtRest
    /\ \E include_remote \in BOOLEAN, stdout \in BranchOutputs :
        lb = BranchesCall("remotes", include_remote, stdout)
    /\ issue_modal = NoIssueModal
    /\ add_modal = NoAddModal
    /\ tmux = NoTmux
    /\ settings = NoSettings

NextListBranches ==
    \/ list_branches_remotes
    \/ list_branches_branch

SpecListBranches == InitListBranches /\ [][NextListBranches]_vars

-----------------------------------------------------------------------------
(* CreateWorktreeFromIssueModal while it is on the screen.  The application  *)
(* answers a FetchRequested message with update_branches or fetch_failed.    *)

\* Entries a branch list holds, and its length.
MaxBranches == 2
BranchUniverse ==
    {<<"origin", "/", "main">>, <<"upstream", "/", "main">>, <<"main">>, <<"dev">>}
BranchLists ==
    {l \in UNION {[1 .. n -> BranchUniverse] : n \in 0 .. MaxBranches} :
        \A i, j \in 1 .. Len(l) : i # j => l[i] # l[j]}
\* What the base branch input can hold.
BaseValues == BranchUniverse \cup {<<>>, <<"typo">>}
\* len(self._spinner_chars)
SpinnerChars == 4

InList(b, branches) == \E i \in 1 .. Len(branches) : branches[i] = b

origin_always(branches, current_branch) == <<"origin", "/">> \o current_branch
compute_default_base_branch(branches, current_branch) ==
    LET remote_branch == <<"origin", "/">> \o current_branch
        upstream_branch == <<"upstream", "/">> \o current_branch
    IN  IF InList(remote_branch, branches) THEN remote_branch
        ELSE IF InList(upstream_branch, branches) THEN upstream_branch
        ELSE IF InList(current_branch, branches) THEN current_branch
        ELSE IF branches # <<>> THEN branches[1] ELSE <<>>

\* btn.disabled of _update_create_button_state
create_disabled(base_branch, branches) == base_branch # <<>> /\ ~InList(base_branch, branches)

\* if self._is_fetching: return
fetch_not_refused(is_fetching) == FALSE
fetch_refused(is_fetching) == is_fetching

\* __init__ and compose
IssueModal(branches, current_branch) ==
    [pc |-> "open", branches |-> branches, current_branch |-> current_branch,
     base_branch |-> compute_default_base_branch(branches, current_branch),
     is_fetching |-> FALSE, spinner_index |-> 0, spinner_timer |-> FALSE,
     fetch_label |-> "Fetch", fetch_disabled |-> FALSE, btn_create_disabled |-> FALSE,
     fetch_requested |-> 0, last |-> "compose"]

\* on_input_changed of input-base-branch
issue_modal_base_branch_changed ==
    /\ issue_modal.pc = "open"
    /\ \E value \in BaseValues :
        issue_modal' = [issue_modal EXCEPT
            !.base_branch = value,
            !.btn_create_disabled = create_disabled(value, issue_modal.branches),
            !.last = "input"]
    /\ UNCHANGED <<stores, handler, worker, listing, lb, add_modal, tmux, settings>>

\* on_button_pressed of btn-fetch: _start_fetch.  A press can be under way
\* before the button is disabled.
issue_modal_start_fetch ==
    /\ issue_modal.pc = "open"
    /\ issue_modal' =
        IF fetch_refused(issue_modal.is_fetching)
        THEN [issue_modal EXCEPT !.last = "fetch-refused"]
        ELSE [issue_modal EXCEPT
                !.is_fetching = TRUE, !.spinner_index = 0, !.spinner_timer = TRUE,
                !.fetch_label = "spinner", !.fetch_disabled = TRUE,
                !.fetch_requested = issue_modal.fetch_requested + 1,
                !.last = "fetch"]
    /\ UNCHANGED <<stores, handler, worker, listing, lb, add_modal, tmux, settings>>

\* _tick_spinner, called by the timer
issue_modal_tick_spinner ==
    /\ issue_modal.pc = "open"
    /\ issue_modal.spinner_timer
    /\ issue_modal' = [issue_modal EXCEPT
            !.spinner_index = (issue_modal.spinner_index + 1) % SpinnerChars,
            !.last = "tick"]
    /\ UNCHANGED <<stores, handler, worker, listing, lb, add_modal, tmux, settings>>

\* update_branches(branches), the answer to a FetchRequested message
issue_modal_update_branches ==
    /\ issue_modal.pc = "open"
    /\ issue_modal.fetch_requested > 0
    /\ \E branches \in BranchLists :
        LET base_branch ==
                IF issue_modal.base_branch = <<>> \/ ~InList(issue_modal.base_branch, branches)
                THEN compute_default_base_branch(branches, issue_modal.current_branch)
                ELSE issue_modal.base_branch
        IN  issue_modal' = [issue_modal EXCEPT
                !.is_fetching = FALSE, !.branches = branches,
                !.spinner_timer = FALSE, !.fetch_label = "Fetch", !.fetch_disabled = FALSE,
                !.base_branch = base_branch,
                !.btn_create_disabled = create_disabled(base_branch, branches),
                !.fetch_requested = issue_modal.fetch_requested - 1,
                !.last = "update_branches"]
    /\ UNCHANGED <<stores, handler, worker, listing, lb, add_modal, tmux, settings>>

\* fetch_failed(error), the other answer to a FetchRequested message
issue_modal_fetch_failed ==
    /\ issue_modal.pc = "open"
    /\ issue_modal.fetch_requested > 0
    /\ issue_modal' = [issue_modal EXCEPT
            !.is_fetching = FALSE,
            !.spinner_timer = FALSE, !.fetch_label = "Fetch", !.fetch_disabled = FALSE,
            !.fetch_requested = issue_modal.fetch_requested - 1,
            !.last = "fetch_failed"]
    /\ UNCHANGED <<stores, handler, worker, listing, lb, add_modal, tmux, settings>>

\* btn-cancel, escape, and btn-create when it is enabled: the modal is dismissed
issue_modal_dismiss ==
    /\ issue_modal.pc = "open"
    /\ \E button \in {"btn-cancel", "btn-create"} :
        /\ button = "btn-create" => ~issue_modal.btn_create_disabled
        /\ issue_modal' = [issue_modal EXCEPT !.pc = "closed", !.last = button]
    /\ UNCHANGED <<stores, handler, worker, listing, lb, add_modal, tmux, settings>>

InitIssueModal ==
    /\ AppAtRest
    /\ \E branches \in BranchLists, current_branch \in {<<"main">>, <<"dev">>} :
        issue_modal = IssueModal(branches, current_branch)
    /\ lb = NoBranches
    /\ add_modal = NoAddModal
    /\ tmux = NoTmux
    /\ settings = NoSettings

NextIssueModal ==
    \/ issue_modal_base_branch_changed
    \/ issue_modal_start_fetch
    \/ issue_modal_tick_spinner
    \/ issue_modal_update_branches
    \/ issue_modal_fetch_failed
    \/ issue_modal_dismiss

SpecIssueModal == InitIssueModal /\ [][NextIssueModal]_vars

-----------------------------------------------------------------------------
(* AddWorktreeModal on the screen.  A name is the sequence of its            *)
(* characters.                                                               *)

\* What can be typed into the name input, and into either branch input.
RawNames == {<<>>, <<"!">>, <<" ">>, <<"a">>, <<"a", "!">>, <<"/", "b">>}
TypedBranches == {<<>>, <<"dev">>, <<"nope">>, <<"feature-x">>}
\* self._branch_prefix
BranchPrefix == <<"feat/">>

\* c.isalnum() or c in "-_"
keeps_every_character(c) == TRUE
isalnum_or_dash(c) == c \in {"a", "b", "-", "_"}
sanitize_name(name) == SelectSeq(name, isalnum_or_dash)

\* path = self._forest_dir / self._repository.name / self._name; path.exists()
path_exists(name) == Len(name) = 1 /\ name[1] \in WtNames /\ fs[WorktreePath(name[1])] # 0

AddModal(branches) ==
    [pc |-> "open", branches |-> branches, raw |-> <<>>, name |-> <<>>, branch |-> <<>>,
     new_branch |-> TRUE, error |-> "", btn_create_disabled |-> FALSE,
     posted |-> <<>>, last |-> "compose"]

\* btn.disabled of _update_create_button_state
add_modal_create_disabled(new_branch, branch, branches) == ~new_branch /\ branch \notin branches

\* on_input_changed of input-name
add_modal_name_changed ==
    /\ add_modal.pc = "open"
    /\ \E value \in RawNames :
        LET name == sanitize_name(value)
            branch == IF add_modal.new_branch THEN BranchPrefix \o name ELSE add_modal.branch
        IN  add_modal' = [add_modal EXCEPT
                !.error = "", !.raw = value, !.name = name, !.branch = branch,
                !.btn_create_disabled =
                    add_modal_create_disabled(add_modal.new_branch, branch, add_modal.branches),
                !.last = "input-name"]
    /\ UNCHANGED <<stores, handler, worker, listing, lb, issue_modal, tmux, settings>>

\* on_input_changed of input-branch and of input-existing-branch
add_modal_branch_changed ==
    /\ add_modal.pc = "open"
    /\ \E value \in TypedBranches :
        add_modal' = [add_modal EXCEPT
            !.error = "", !.branch = value,
            !.btn_create_disabled =
                add_modal_create_disabled(add_modal.new_branch, value, add_modal.branches),
            !.last = "input-branch"]
    /\ UNCHANGED <<stores, handler, worker, listing, lb, issue_modal, tmux, settings>>

\* btn-new-branch and btn-existing-branch: _set_new_branch_mode
add_modal_set_new_branch_mode ==
    /\ add_modal.pc = "open"
    /\ \E new_branch \in BOOLEAN :
        add_modal' = [add_modal EXCEPT
            !.new_branch = new_branch,
            !.btn_create_disabled =
                add_modal_create_disabled(new_branch, add_modal.branch, add_modal.branches),
            !.last = "mode"]
    /\ UNCHANGED <<stores, handler, worker, listing, lb, issue_modal, tmux, settings>>

\* btn-create: _create_worktree.  A press can be under way before the button
\* is disabled.
add_modal_create_worktree ==
    /\ add_modal.pc = "open"
    /\ add_modal' =
        IF add_modal.name = <<>>
        THEN [add_modal EXCEPT !.error = "Worktree name is required", !.last = "create"]
        ELSE IF add_modal.branch = <<>>
        THEN [add_modal EXCEPT !.error = "Branch name is required", !.last = "create"]
        ELSE IF ~add_modal.new_branch /\ add_modal.branch \notin add_modal.branches
        THEN [add_modal EXCEPT !.error = "Branch does not exist", !.last = "create"]
        ELSE IF path_exists(add_modal.name)
        THEN [add_modal EXCEPT !.error = "Worktree path already exists", !.last = "create"]
        ELSE [add_modal EXCEPT
                !.posted = Append(add_modal.posted,
                                  [name |-> add_modal.name, branch |-> add_modal.branch,
                                   new_branch |-> add_modal.new_branch]),
                !.pc = "closed", !.last = "create"]
    /\ UNCHANGED <<stores, handler, worker, listing, lb, issue_modal, tmux, settings>>

\* btn-cancel and escape
add_modal_cancel ==
    /\ add_modal.pc = "open"
    /\ add_modal' = [add_modal EXCEPT !.pc = "closed", !.last = "cancel"]
    /\ UNCHANGED <<stores, handler, worker, listing, lb, issue_modal, tmux, settings>>

\* _show_add_worktree_modal: the branches of the repository, or none when
\* listing them failed; the directories of the forest as they are.
InitAddModal ==
    /\ catalog = <<>>
    /\ nextId = 1
    /\ selection = NoId
    /\ fs \in [AllPaths -> {0} \cup Ids]
    /\ gitWt = [k \in Ids |-> NoEntry]
    /\ gitBr = InitBranches
    /\ hpc = "idle"
    /\ hreq = NoRequest
    /\ cw = NoFrame
    /\ rn = NoRename
    /\ hlog = <<>>
    /\ hres = "none"
    /\ wpc = "idle"
    /\ wreq = NoCapture
    /\ wlog = <<>>
    /\ wres = "none"
    /\ im = NoImport
    /\ lw = NoParse
    /\ aw = NoCall
    /\ sidebar = NoTree
    /\ now = 1
    /\ \E branches \in {{}, {b \in LocalNames : InitBranches[b].exists} \cup RemoteRefs} :
        add_modal = AddModal(branches)
    /\ lb = NoBranches
    /\ issue_modal = NoIssueModal
    /\ tmux = NoTmux
    /\ settings = NoSettings

NextAddModal ==
    \/ add_modal_name_changed
    \/ add_modal_branch_changed
    \/ add_modal_set_new_branch_mode
    \/ add_modal_create_worktree
    \/ add_modal_cancel

SpecAddModal == InitAddModal /\ [][NextAddModal]_vars

-----------------------------------------------------------------------------
(* TmuxService: the windows of the session, and the two calls that open one. *)
(* Every call of libtmux can raise LibTmuxException.                         *)

\* Windows the session holds at most.
MaxWindows == 3

\* window_name = f"edit:{worktree_name}", f"claude:{name}"
window_name(kind, name) == <<kind, ":", name>>

TmuxWindow(name, keys) == [window_name |-> name, keys |-> keys]
TmuxCall(op, name, returned) == [op |-> op, name |-> name, returned |-> returned]

\* find_window: the first window of that name, None when there is none and
\* when listing the windows raised.
find_window(windows, name, listed) ==
    IF listed /\ \E i \in 1 .. Len(windows) : windows[i].window_name = name
    THEN CHOOSE i \in 1 .. Len(windows) :
            /\ windows[i].window_name = name
            /\ \A j \in 1 .. i - 1 : windows[j].window_name # name
    ELSE 0

\* The body of create_editor_window and of create_claude_window behind
\* `if self.session is None: return False`.
create_window(kind, name, keys) ==
    \E listed \in BOOLEAN, done \in BOOLEAN, pane \in BOOLEAN, sent \in BOOLEAN :
        LET existing_window == find_window(tmux.windows, window_name(kind, name), listed)
            call(returned) == TmuxCall(kind, name, returned)
        IN  IF ~tmux.session
            THEN tmux' = [tmux EXCEPT !.last = call(FALSE)]
            ELSE IF existing_window # 0
            THEN \* existing_window.select()
                 tmux' = IF done
                         THEN [tmux EXCEPT !.selected = existing_window, !.last = call(TRUE)]
                         ELSE [tmux EXCEPT !.last = call(FALSE)]
            ELSE IF ~done
            THEN \* self.session.new_window(...) raised
                 tmux' = [tmux EXCEPT !.last = call(FALSE)]
            ELSE /\ Len(tmux.windows) < MaxWindows
                 /\ tmux' = [tmux EXCEPT
                        !.windows = Append(tmux.windows,
                            TmuxWindow(window_name(kind, name),
                                       IF pane /\ sent THEN <<keys>> ELSE <<>>)),
                        !.selected = Len(tmux.windows) + 1,
                        !.last = call(~pane \/ sent)]

create_editor_window ==
    /\ tmux.pc = "session"
    /\ \E worktree_name \in WtNames : create_window("edit", worktree_name, "editor .")
    /\ UNCHANGED <<stores, handler, worker, listing, lb, issue_modal, add_modal, settings>>

create_claude_window ==
    /\ tmux.pc = "session"
    /\ \E name \in WtNames, resume_session_id \in {"", "s1"} :
        create_window("claude", name,
                      IF resume_session_id # "" THEN "claude -r s1" ELSE "claude")
    /\ UNCHANGED <<stores, handler, worker, listing, lb, issue_modal, add_modal, settings>>

\* The user closes a window of the session.
tmux_kill_window ==
    /\ tmux.pc = "session"
    /\ \E i \in 1 .. Len(tmux.windows) :
        tmux' = [tmux EXCEPT
            !.windows = SubSeq(tmux.windows, 1, i - 1)
                            \o SubSeq(tmux.windows, i + 1, Len(tmux.windows)),
            !.selected = IF Len(tmux.windows) = 1 THEN 0 ELSE 1,
            !.last = TmuxCall("kill", "", TRUE)]
    /\ UNCHANGED <<stores, handler, worker, listing, lb, issue_modal, add_modal, settings>>

\* Inside a tmux session with the window of the application, or outside one.
InitTmux ==
    /\ AppAtRest
    /\ \E session \in BOOLEAN :
        tmux = [pc |-> "session", session |-> session,
                windows |-> IF session THEN <<TmuxWindow(<<"forestui">>, <<>>)>> ELSE <<>>,
                selected |-> IF session THEN 1 ELSE 0,
                last |-> TmuxCall("none", "", FALSE)]
    /\ lb = NoBranches
    /\ issue_modal = NoIssueModal
    /\ add_modal = NoAddModal
    /\ settings = NoSettings

NextTmux ==
    \/ create_editor_window
    \/ create_claude_window
    \/ tmux_kill_window

SpecTmux == InitTmux /\ [][NextTmux]_vars

-----------------------------------------------------------------------------
(* SettingsService: the settings in memory and the settings file.            *)

SettingsValues ==
    [default_editor : {"vim", "nvim", "code"}, branch_prefix : {"feat/", "fix/"},
     theme : {"system", "dark"}]
\* Settings.default()
DefaultSettings == [default_editor |-> "vim", branch_prefix |-> "feat/", theme |-> "system"]

\* The settings file: absent, cut short by a write that failed, or written.
SettingsFile(state, value) == [state |-> state, value |-> value]
SettingsFiles ==
    {SettingsFile("none", DefaultSettings), SettingsFile("truncated", DefaultSettings)}
        \cup {SettingsFile("written", v) : v \in SettingsValues}

\* self._settings behind a statement of save_settings that raised
replaced_when_raised(current, new) == new
settings_when_raised(current, new) == current

\* save_settings(settings): mkdir of the directory, open("w") of the file,
\* json.dump into it, and then the assignment.  mkdir and open can raise
\* OSError before the file is touched, the write after it was truncated.
save_settings(new) ==
    \E raised \in {"", "mkdir", "open", "write"} :
        settings' =
            IF raised = ""
            THEN [settings EXCEPT !.memory = new, !.file = SettingsFile("written", new),
                                  !.dir = TRUE,
                                  !.last = [op |-> "save", arg |-> new, raised |-> FALSE]]
            ELSE [settings EXCEPT
                    !.memory = settings_when_raised(settings.memory, new),
                    !.dir = settings.dir \/ raised # "mkdir",
                    !.file = IF raised = "write"
                              THEN SettingsFile("truncated", DefaultSettings)
                              ELSE settings.file,
                    !.last = [op |-> "save", arg |-> new, raised |-> TRUE]]

SettingsService_save_settings ==
    /\ settings.pc = "loaded"
    /\ \E new \in SettingsValues : save_settings(new)
    /\ UNCHANGED <<stores, handler, worker, listing, lb, issue_modal, add_modal, tmux>>

\* update(**kwargs): the current settings with one field replaced, saved
SettingsService_update ==
    /\ settings.pc = "loaded"
    /\ \E default_editor \in {"vim", "nvim", "code"} :
        save_settings([settings.memory EXCEPT !.default_editor = default_editor])
    /\ UNCHANGED <<stores, handler, worker, listing, lb, issue_modal, add_modal, tmux>>

\* __init__ -> _load_settings: the file's settings, the defaults without a
\* readable file.
InitSettings ==
    /\ AppAtRest
    /\ \E file \in SettingsFiles :
        settings = [pc |-> "loaded",
                    memory |-> IF file.state = "written" THEN file.value ELSE DefaultSettings,
                    file |-> file, dir |-> file.state # "none",
                    last |-> [op |-> "load", arg |-> DefaultSettings, raised |-> FALSE]]
    /\ lb = NoBranches
    /\ issue_modal = NoIssueModal
    /\ add_modal = NoAddModal
    /\ tmux = NoTmux

NextSettings ==
    \/ SettingsService_save_settings
    \/ SettingsService_update

SpecSettings == InitSettings /\ [][NextSettings]_vars

-----------------------------------------------------------------------------
(* Properties: RemoveWorktree *)

IsRemove(c) == c.cmd = "remove"
BothFailed(log) == Len(log) = 2 /\ log[1].code # 0 /\ log[2].code # 0

\* C1: one remove_worktree call issues at most two `worktree remove`
\* commands, the first without --force, the second with --force and only
\* after the first exited nonzero; it raises GitError exactly when both
\* exited nonzero and returns normally when either exited 0.
C1_RemoveEscalatesOnce ==
    /\ Len(wlog) <= 2
    /\ \A i \in 1 .. Len(wlog) : IsRemove(wlog[i]) /\ wlog[i].path = wreq.path
    /\ Len(wlog) >= 1 => ~wlog[1].force
    /\ Len(wlog) = 2 => wlog[2].force /\ wlog[1].code # 0
    /\ wpc = "force" <=> (Len(wlog) = 1 /\ wlog[1].code # 0)
    /\ wres = "GitError" <=> (wpc = "idle" /\ BothFailed(wlog))
    /\ wres = "removed" <=> (wpc = "idle" /\ wlog # <<>> /\ wlog[Len(wlog)].code = 0)

\* A removal that the plain command refused and the forced one carried out.
C1_Witness ==
    /\ wres = "removed"
    /\ Len(wlog) = 2
    /\ wlog[1].code # 0
    /\ wlog[2].force /\ wlog[2].code = 0

\* C2: in the delete flows the Catalog entry is removed only after the VCS
\* removal has succeeded: when remove_worktree raised, the worktree is still
\* in the Catalog.
C2_CatalogKeptWhenRemoveFails ==
    wres = "GitError" => wreq.id \in CatalogIds(catalog)

-----------------------------------------------------------------------------
(* Properties: CreateWorktree *)

IsAdd(c) == c.cmd = "add"
Adds(log) == SelectSeq(log, IsAdd)
IsGit(c) == c.cmd \in {"add", "unset_upstream"}
AddsAndUnsets(log) == SelectSeq(log, IsGit)

CreateStep == hpc \in {"create_msg", "create"} /\ <<hpc, cw>>' # <<hpc, cw>>

\* C3: the create handler appends the new Worktree to the Catalog exactly
\* when its `worktree add` exited 0; when it exited nonzero the error is
\* reported and Catalog and selection are as they were, and no step of the
\* handler before its end touches them.
C3_CatalogInsertIffAddSucceeds ==
    [][CreateStep =>
        IF hpc' = "idle"
        THEN /\ Len(Adds(hlog')) = 1
             /\ IF Adds(hlog')[1].code = 0
                THEN /\ hres' = "created"
                     /\ catalog' = Append(catalog,
                            Worktree(nextId, hreq.name, hreq.branch, WorktreePath(hreq.name)))
                     /\ selection' = nextId
                ELSE /\ hres' = "GitError"
                     /\ UNCHANGED <<catalog, selection, nextId>>
        ELSE UNCHANGED <<catalog, selection, nextId>>]_vars

\* A create request whose `worktree add` failed, with a worktree already in
\* the Catalog.
C3_Witness ==
    /\ hpc = "idle"
    /\ hreq.op = "create"
    /\ hres = "GitError"
    /\ Len(Adds(hlog)) = 1 /\ Adds(hlog)[1].code # 0
    /\ Len(catalog) >= 1

\* The base names a branch of one of the repository's remotes.
RemoteQualified(ref) == \E r \in Remotes : StartsWith(ref, RemotePrefix(r))

\* C4: whenever create_worktree with new_branch and a remote-qualified base
\* returns normally, the new branch has no upstream.
C4_NoUpstreamAfterRemoteBase ==
    (/\ cw.pc = "done"
     /\ ~cw.raised
     /\ cw.new_branch
     /\ RemoteQualified(cw.base_branch))
    => gitBr[cw.branch].upstream = NoUpstream

\* "origin/x" -> "x"
ShortName(ref) == SubSeq(ref, 3, Len(ref))

\* The short name was no local branch when the call began: it is none now,
\* or this call's own `worktree add -b` made it.
NoLocalCounterpart(ref) ==
    \/ ~gitBr[ShortName(ref)].exists
    \/ \E i \in 1 .. Len(hlog) :
        IsAdd(hlog[i]) /\ hlog[i].code = 0 /\ hlog[i].b = ShortName(ref)

OnBranch(path) == fs[path] # 0 /\ gitWt[fs[path]].branch # NoRef

\* C5: create_worktree with new_branch=False and a remote branch without a
\* local counterpart issues `worktree add --track -b <short> <path> <ref>`
\* and never the plain `worktree add <path> <ref>`, so that a call that
\* returns normally leaves the worktree on a local branch; also when the
\* listing of the remotes failed.
C5_RemoteBranchGetsTrackingBranch ==
    (/\ cw.pc = "done"
     /\ ~cw.new_branch
     /\ cw.branch \in RemoteRefs
     /\ NoLocalCounterpart(cw.branch))
    => /\ Adds(hlog) = <<GitCmd("add", FALSE, TRUE, ShortName(cw.branch), cw.path,
                                cw.branch, cw.code)>>
       /\ ~cw.raised => OnBranch(cw.path)

-----------------------------------------------------------------------------
(* Properties: RenameWorktree *)

\* The sibling path the rename handler computes for the pending request.
RenameTarget == Join(Parent(find_worktree(catalog, hreq.id).path), hreq.new_name)

RenameStart == hpc = "rename_msg" /\ hpc' # hpc /\ find_worktree(catalog, hreq.id) # NoWorktree

Issued(log, cmd) == \E i \in 1 .. Len(log) : log[i].cmd = cmd
Failed(log, cmd) == \E i \in 1 .. Len(log) : log[i].cmd = cmd /\ log[i].code # 0

\* C7: a rename whose sibling destination exists is refused: no directory
\* rename, no repair, no session migration, no Catalog update; directory,
\* VCS metadata and Catalog are unchanged.
C7_RenameRefusedWhenDestinationExists ==
    [][(RenameStart /\ fs[RenameTarget] # 0)
       => /\ hpc' = "idle"
          /\ hres' = "refused"
          /\ hlog' = <<>>
          /\ UNCHANGED <<fs, gitWt, gitBr, catalog, selection>>]_vars

\* A rename refused because another worktree of the Catalog has its
\* directory at the destination.
C7_Witness ==
    /\ hpc = "idle"
    /\ hreq.op = "rename"
    /\ hres = "refused"
    /\ \E i, j \in 1 .. Len(catalog) :
        /\ i # j
        /\ catalog[i].id = hreq.id
        /\ catalog[j].path = Join(Parent(catalog[i].path), hreq.new_name)
        /\ fs[catalog[i].path] # 0
        /\ fs[catalog[j].path] # 0

\* C8: when the directory was renamed and the repair then fails, the error
\* is reported and nothing is rolled back: the directory stays at the new
\* path, the sessions are not migrated, the Catalog record keeps its old
\* name and path.
C8_RepairFailureIsNotRolledBack ==
    [][(hpc = "rename_repair" /\ hpc' # hpc /\ Failed(hlog', "repair"))
       => /\ hres' = "GitError"
          /\ UNCHANGED <<fs, gitWt, catalog>>
          /\ fs[rn.new_path] # 0
          /\ fs[rn.old_path] = 0
          /\ ~Issued(hlog', "migrate_sessions")
          /\ LET w == find_worktree(catalog', hreq.id) IN
                w # NoWorktree => w.path = rn.old_path /\ w.name # hreq.new_name]_vars

\* The rename has ended in the repair's error: the Catalog record names the
\* old path, where no directory is, and the directory is at the new path.
C8_Witness ==
    /\ hpc = "idle"
    /\ hreq.op = "rename"
    /\ hres = "GitError"
    /\ Failed(hlog, "repair")
    /\ LET w == find_worktree(catalog, hreq.id) IN
        /\ w # NoWorktree
        /\ w.name # hreq.new_name
        /\ fs[w.path] = 0
        /\ fs[Join(Parent(w.path), hreq.new_name)] # 0

\* The pending rename request repeats one that failed at the repair: the
\* worktree's directory is already at the destination, git's record of it
\* still names the Catalog's path, and a repair there can succeed.
RetryAfterRepairFailure ==
    /\ hpc = "rename_msg"
    /\ find_worktree(catalog, hreq.id) # NoWorktree
    /\ fs[find_worktree(catalog, hreq.id).path] = 0
    /\ fs[RenameTarget] # 0
    /\ gitWt[fs[RenameTarget]].path = find_worktree(catalog, hreq.id).path
    /\ GitRepairCan(RenameTarget)

\* C9: a rename request repeated after it failed at the repair completes
\* the rename: when its handler ends without a new failure, filesystem, VCS
\* metadata and Catalog agree on the new name and path.
C9_RetryCompletesRename ==
    [][(RetryAfterRepairFailure /\ hpc' = "idle" /\ hres' \notin {"OSError", "GitError"})
       => LET w == find_worktree(catalog', hreq.id) IN
            /\ w.name = hreq.new_name
            /\ w.path = RenameTarget
            /\ fs'[w.path] # 0
            /\ gitWt'[fs'[w.path]].path = w.path]_vars

\* C10: when the directory rename itself raises OSError, the handler ends
\* there: no repair is issued, no sessions are migrated, and filesystem, VCS
\* metadata and the Catalog record are unchanged.
C10_RenameOSErrorLeavesNoMutation ==
    [][(RenameStart /\ Failed(hlog', "rename"))
       => /\ hpc' = "idle"
          /\ hres' = "OSError"
          /\ ~Issued(hlog', "repair")
          /\ ~Issued(hlog', "migrate_sessions")
          /\ UNCHANGED <<fs, gitWt, catalog>>]_vars

\* A rename has ended in the OSError of the directory rename, the worktree's
\* directory still at the Catalog's path.
C10_Witness ==
    /\ hpc = "idle"
    /\ hreq.op = "rename"
    /\ hres = "OSError"
    /\ Failed(hlog, "rename")
    /\ LET w == find_worktree(catalog, hreq.id) IN
        /\ w # NoWorktree
        /\ w.name # hreq.new_name
        /\ fs[w.path] # 0

RenameSteps == <<"rename", "repair", "migrate_sessions">>

RenameHandlerStep == hpc \in {"rename_msg", "rename_repair"} /\ hpc' # hpc

\* C11: a rename request goes through destination check, directory rename,
\* repair against the new path, session migration old -> new, Catalog update
\* in that order, each at most once and each only after the one before it
\* succeeded; the Catalog changes only at the end of a run in which all of
\* them succeeded, and then to the new name and path.
C11_RenameStepsInOrder ==
    [][RenameHandlerStep =>
        /\ Len(hlog') <= 3
        /\ \A i \in 1 .. Len(hlog') :
            /\ hlog'[i].cmd = RenameSteps[i]
            /\ i < Len(hlog') => hlog'[i].code = 0
        /\ (hpc = "rename_msg" /\ find_worktree(catalog, hreq.id) # NoWorktree
                /\ fs[RenameTarget] # 0) => hlog' = <<>>
        /\ Len(hlog') >= 1 => /\ hlog'[1].ref = Join(Parent(hlog'[1].path), hreq.new_name)
                              /\ hlog'[1].code = 0 => fs'[hlog'[1].ref] # 0
        /\ Len(hlog') >= 2 => hlog'[2].path = hlog'[1].ref
        /\ Len(hlog') = 3 => /\ hlog'[3].path = hlog'[1].path
                             /\ hlog'[3].ref = hlog'[1].ref
        /\ IF hpc' = "idle" /\ Len(hlog') = 3 /\ hlog'[3].code = 0
           THEN catalog' = [i \in 1 .. Len(catalog) |->
                    IF catalog[i].id = hreq.id
                    THEN [catalog[i] EXCEPT !.name = hreq.new_name, !.path = hlog'[1].ref]
                    ELSE catalog[i]]
           ELSE catalog' = catalog]_vars

\* A rename that went through every step: the Catalog record carries the new
\* name and the new path, where the directory now is.
C11_Witness ==
    /\ hpc = "idle"
    /\ hreq.op = "rename"
    /\ hres = "renamed"
    /\ Len(hlog) = 3
    /\ \A i \in 1 .. 3 : hlog[i].cmd = RenameSteps[i] /\ hlog[i].code = 0
    /\ LET w == find_worktree(catalog, hreq.id) IN
        /\ w.name = hreq.new_name
        /\ w.path = hlog[1].ref
        /\ w.path # hlog[1].path
        /\ fs[w.path] # 0

-----------------------------------------------------------------------------
(* Properties: RenameBranch *)

BranchHandlerStep == hpc \in {"branch_msg", "branch_m"} /\ hpc' # hpc

SameButBranch(w, v) == w.id = v.id /\ w.name = v.name /\ w.path = v.path

-----------------------------------------------------------------------------
(* Properties: ImportExistingWorktrees *)

\* p is a path below root: root's components, then more.
Inside(p, root) == Len(p) > Len(root) /\ SubSeq(p, 1, Len(root)) = root

ImportRound == im.pc = "loop" /\ im.i <= Len(im.worktrees) /\ im' # im

Entry == im.worktrees[im.i]

\* C13: the import adds one Catalog worktree for exactly the listed entries
\* that are neither the repository's own source path (after resolution) nor
\* inside the forest directory; an entry whose path only shares a string
\* prefix with the forest directory is imported.
C13_ImportsExactlyTheUnmanaged ==
    [][(ImportRound /\ im'.pc = "loop")
       => IF resolve(Entry.path) # resolve(im.source_path) /\ ~Inside(Entry.path, ForestDir)
          THEN /\ Len(catalog') = Len(catalog) + 1
               /\ catalog'[Len(catalog')].path = Entry.path
          ELSE catalog' = catalog]_vars

\* C14: a Worktree the import synthesizes has the listed entry's path, that
\* path's last component as its name, and the entry's branch, or "HEAD"
\* when the entry has none; it is not archived.
C14_ImportedWorktreeFields ==
    [][(ImportRound /\ catalog' # catalog)
       => /\ Len(catalog') = Len(catalog) + 1
          /\ LET w == catalog'[Len(catalog')] IN
              /\ w.path = Entry.path
              /\ w.name = Entry.path[Len(Entry.path)]
              /\ w.branch = IF Entry.branch = None THEN <<"HEAD">> ELSE Entry.branch
              /\ ~w.is_archived]_vars

IsImportOf(w, path, branch) ==
    /\ w.path = path
    /\ w.branch = branch
    /\ ~w.is_archived

\* An import that ended with a detached worktree and one on a branch in the
\* Catalog.
C14_Witness ==
    /\ im.pc = "done"
    /\ hres = "imported"
    /\ \E i, j \in 1 .. Len(catalog) :
        /\ IsImportOf(catalog[i], <<"work", "wt2">>, <<"HEAD">>)
        /\ catalog[i].name = "wt2"
        /\ IsImportOf(catalog[j], <<"work", "wt1">>, <<"x">>)
        /\ catalog[j].name = "wt1"

\* C15: the import only adds: what the Catalog held before any of its steps
\* is still there, unchanged and in place, after it; when the listing failed
\* the import ends without adding anything; a failure in a later round
\* leaves the entries of the earlier rounds in the Catalog.
C15_ImportIsAdditive ==
    [][(im' # im)
       => /\ Len(catalog') >= Len(catalog)
          /\ SubSeq(catalog', 1, Len(catalog)) = catalog
          /\ Failed(hlog', "list") => catalog' = catalog /\ im'.pc = "done"]_vars

\* An import that failed in a round after one that added an entry: the
\* entry that was there before and the entry added are in the Catalog.
C15_Witness ==
    /\ im.pc = "done"
    /\ hres = "Error"
    /\ Len(hlog) >= 3
    /\ hlog[2].cmd = "add_worktree" /\ hlog[2].code = 0
    /\ hlog[Len(hlog)].cmd = "add_worktree" /\ hlog[Len(hlog)].code # 0
    /\ Len(catalog) >= 2
    /\ catalog[1] = AlreadyThere
    /\ catalog[2].path = hlog[2].path

-----------------------------------------------------------------------------
(* Properties: the listing parser *)

\* The records of a text: the runs of lines between blank lines.
RECURSIVE SplitAtBlank(_, _)
SplitAtBlank(text, group) ==
    IF text = <<>> THEN (IF group = <<>> THEN <<>> ELSE <<group>>)
    ELSE IF Head(text) = <<>>
         THEN (IF group = <<>> THEN <<>> ELSE <<group>>) \o SplitAtBlank(Tail(text), <<>>)
         ELSE SplitAtBlank(Tail(text), Append(group, Head(text)))

Groups == SplitAtBlank(lw.stdout, <<>>)

IsWorktreeLine(line) == Len(line) > 2 /\ SubSeq(line, 1, 2) = <<"worktree", " ">>
IsHeadLine(line) == Len(line) = 3 /\ SubSeq(line, 1, 2) = <<"HEAD", " ">>
IsBranchLine(line) == Len(line) >= 3 /\ SubSeq(line, 1, 3) = <<"branch", " ", "refs/heads/">>

\* `worktree <path>`, `HEAD <hash>`, and maybe `branch refs/heads/<name>`
WellFormed(g) ==
    /\ Len(g) \in {2, 3}
    /\ IsWorktreeLine(g[1])
    /\ IsHeadLine(g[2])
    /\ Len(g) = 3 => IsBranchLine(g[3]) /\ Len(g[3]) > 3

GroupPath(g) == SubSeq(g[1], 3, Len(g[1]))
GroupHead(g) == <<g[2][3]>>
GroupBranch(g) == IF Len(g) = 3 THEN SubSeq(g[3], 4, Len(g[3])) ELSE None

Returned == lw.pc = "done" /\ ~lw.raised

\* C16: for a well-formed listing text list_worktrees returns one
\* WorktreeInfo per group, in the order of the text, each with its group's
\* path, head and branch (short name, or None), the last group included
\* whether or not a blank line follows it.
C16_ParseReconstructsRecords ==
    (Returned /\ \A i \in 1 .. Len(Groups) : WellFormed(Groups[i]))
    => /\ Len(lw.worktrees) = Len(Groups)
       /\ \A i \in 1 .. Len(Groups) :
            lw.worktrees[i] = WorktreeInfo(GroupPath(Groups[i]), GroupHead(Groups[i]),
                                           GroupBranch(Groups[i]))

\* A record with its path and its head, whatever else it has or lacks.
Complete(g) == Len(g) >= 2 /\ IsWorktreeLine(g[1]) /\ IsHeadLine(g[2])
HasPath(g) == \E j \in 1 .. Len(g) : IsWorktreeLine(g[j])
HasHead(g) == \E j \in 1 .. Len(g) : IsHeadLine(g[j])

C18_MalformedRecordsAreDropped ==
    /\ lw.raised => lw.pc = "done" /\ lw.i = 0
    /\ \A k \in 1 .. Len(lw.worktrees) :
        truthy(lw.worktrees[k].path) /\ truthy(lw.worktrees[k].head)
    /\ Returned =>
        /\ Len(lw.worktrees) <= Cardinality({i \in 1 .. Len(Groups) : HasPath(Groups[i])})
        /\ \A i \in 1 .. Len(Groups) :
            Complete(Groups[i]) =>
                \E k \in 1 .. Len(lw.worktrees) :
                    <<lw.worktrees[k]>> = list_worktrees(Groups[i])

\* A text whose first record has neither path nor head and whose second has
\* no head: the third, which has both, is what is returned.
C18_Witness ==
    /\ Returned
    /\ Len(Groups) = 3
    /\ ~HasPath(Groups[1]) /\ ~HasHead(Groups[1])
    /\ HasPath(Groups[2]) /\ ~HasHead(Groups[2])
    /\ Complete(Groups[3])
    /\ lw.worktrees = <<WorktreeInfo(<<"/p">>, <<"h1">>, <<"x">>)>>

LineStep == lw.pc = "scan" /\ lw.i <= Len(lw.lines) /\ lw' # lw

\* C19: a branch line `branch refs/heads/<name>` makes <name> the branch of
\* the record: the leading prefix goes and nothing else of the name.
C19_OnlyLeadingPrefixRemoved ==
    [][(LineStep /\ IsBranchLine(lw.lines[lw.i]))
       => lw'.current_branch = SubSeq(lw.lines[lw.i], 4, Len(lw.lines[lw.i]))]_vars

-----------------------------------------------------------------------------
(* Properties: ordering of the worktrees *)

Occurrences(s, w) == Cardinality({i \in 1 .. Len(s) : s[i] = w})

\* C20: active_worktrees returns the worktrees that are not archived, each
\* once and no other; those with a sort_order come first, in ascending
\* sort_order, those without come after all of them, and of two with the
\* same sort_order (or both without) the one modified later comes first.
C20_ActiveWorktreesOrder ==
    aw.pc = "done" =>
        /\ \A i \in 1 .. Len(catalog) :
            Occurrences(aw.result, catalog[i]) = IF catalog[i].is_archived THEN 0 ELSE 1
        /\ \A k \in 1 .. Len(aw.result) :
            \E i \in 1 .. Len(catalog) : aw.result[k] = catalog[i]
        /\ \A j, k \in 1 .. Len(aw.result) :
            j < k =>
                LET v == aw.result[j]
                    w == aw.result[k]
                IN  /\ v.sort_order = NoOrder => w.sort_order = NoOrder
                    /\ (v.sort_order # NoOrder /\ w.sort_order # NoOrder)
                            => v.sort_order <= w.sort_order
                    /\ v.sort_order = w.sort_order => v.last_modified >= w.last_modified

\* Three worktrees, the first archived, the second without a sort_order,
\* the third with one: the third is returned before the second.
C20_Witness ==
    /\ aw.pc = "done"
    /\ Len(catalog) = 3
    /\ catalog[1].is_archived
    /\ ~catalog[2].is_archived /\ catalog[2].sort_order = NoOrder
    /\ ~catalog[3].is_archived /\ catalog[3].sort_order = 1
    /\ aw.result = <<catalog[3], catalog[2]>>

-----------------------------------------------------------------------------
(* Properties: archival *)

In(s, w) == \E k \in 1 .. Len(s) : s[k] = w

\* C21: archived_worktrees returns the archived worktrees, each once and no
\* other, the one modified later first whatever the sort_order; with
\* active_worktrees it partitions the worktrees: after any mutation each
\* worktree of the Catalog is in exactly one of the two lists, once.
C21_ArchivedAndActivePartition ==
    /\ \A i \in 1 .. Len(catalog) :
        /\ Occurrences(sidebar.archived, catalog[i]) = IF catalog[i].is_archived THEN 1 ELSE 0
        /\ Occurrences(sidebar.active, catalog[i]) + Occurrences(sidebar.archived, catalog[i]) = 1
    /\ \A k \in 1 .. Len(sidebar.archived) : In(catalog, sidebar.archived[k])
    /\ \A k \in 1 .. Len(sidebar.active) : In(catalog, sidebar.active[k])
    /\ \A j, k \in 1 .. Len(sidebar.archived) :
        j < k => sidebar.archived[j].last_modified >= sidebar.archived[k].last_modified

\* Two archived worktrees, the one archived later listed first although the
\* other has the lower sort_order, and an active one beside them.
C21_Witness ==
    /\ Len(sidebar.archived) = 2
    /\ Len(sidebar.active) = 1
    /\ sidebar.archived[1].last_modified > sidebar.archived[2].last_modified
    /\ sidebar.archived[1].sort_order = NoOrder
    /\ sidebar.archived[2].sort_order = 0

Selected == find_worktree(catalog, selection)

ArchiveStep(op) == hreq'.op = op /\ hres' = "refreshed" /\ <<catalog, hreq, sidebar>>' # <<catalog, hreq, sidebar>>

\* C22: archiving sets the selected worktree's flag and unarchiving clears
\* it, each setting last_modified to the time of the call and changing
\* nothing else; the toggle does the one the flag asks for, so it flips the
\* flag (and a second toggle flips it back), and after each of them the
\* worktree is in the list that goes with its flag and not in the other.
C22_ToggleMovesBetweenLists ==
    [][(\E op \in {"archive", "unarchive", "toggle_archive"} : ArchiveStep(op))
       => LET w == find_worktree(catalog', selection) IN
          /\ Selected # NoWorktree
          /\ w.is_archived = (IF hreq'.op = "toggle_archive" THEN ~Selected.is_archived
                              ELSE hreq'.op = "archive")
          /\ w.last_modified = now
          /\ w = [Selected EXCEPT !.is_archived = w.is_archived, !.last_modified = now]
          /\ Len(catalog') = Len(catalog)
          /\ \A i \in 1 .. Len(catalog) : catalog[i].id # selection => catalog'[i] = catalog[i]
          /\ In(sidebar'.archived, w) <=> w.is_archived
          /\ In(sidebar'.active, w) <=> ~w.is_archived
          /\ hreq'.op = "toggle_archive" =>
                /\ In(sidebar'.archived, w) <=> ~Selected.is_archived
                /\ In(sidebar'.active, w) <=> Selected.is_archived]_vars

\* A toggle has just unarchived the selected worktree, at a later time than
\* the one it was archived at: it is back among the active ones.
C22_Witness ==
    /\ hreq.op = "toggle_archive"
    /\ hres = "refreshed"
    /\ Selected # NoWorktree
    /\ ~Selected.is_archived
    /\ Selected.last_modified = now
    /\ now > 1
    /\ In(sidebar.active, Selected)
    /\ Len(sidebar.archived) = 1

-----------------------------------------------------------------------------
(* Properties: retries *)

IssuedOnce(log) == \A i, j \in 1 .. Len(log) : log[i].cmd = log[j].cmd => i = j

\* The commands of one create_worktree call are each issued once, whatever
\* their exit codes.
CreateNeverRetries == IssuedOnce(hlog)

\* C23: within one create_worktree call no command is issued a second time,
\* and when one of its commands exited nonzero (a lock held by another
\* writer, say) the call raises GitError to its caller.
C23_FailureSurfacesWithoutRetry ==
    cw.pc = "done" =>
        /\ IssuedOnce(hlog)
        /\ (\E i \in 1 .. Len(hlog) : hlog[i].code # 0) => cw.raised

-----------------------------------------------------------------------------
(* Properties: confirmation of a deletion *)

WorkerStep == <<wpc, wlog>>' # <<wpc, wlog>>

\* C24: the worker issues `worktree remove`, plain or forced, only after
\* the confirmation prompt was dismissed with Delete: the plain one follows
\* the prompt, the forced one the plain one; when the prompt is cancelled or
\* dismissed the worker ends there, no command issued, the Catalog, the
\* filesystem and git's records as they were.
C24_RemoveOnlyAfterConfirmation ==
    [][WorkerStep =>
        /\ (wlog' # wlog /\ wlog' # <<>>) =>
            /\ wres = "confirmed"
            /\ wpc \in {"plain", "force"}
            /\ wlog' = Append(wlog, wlog'[Len(wlog')])
            /\ wlog'[Len(wlog')].force <=> wpc = "force"
        /\ wpc' = "plain" => wpc = "confirm" /\ wres' = "confirmed"
        /\ wpc' = "force" => wpc = "plain" /\ wres' = "confirmed"
        /\ (wpc = "confirm" /\ wres' = "cancelled") =>
            /\ wpc' = "idle"
            /\ wlog' = <<>>
            /\ UNCHANGED <<catalog, selection, fs, gitWt, gitBr>>]_vars

\* A deletion cancelled at the prompt: the worktree is in the Catalog, its
\* directory and git's record of it are there, no command was issued.
C24_Witness ==
    /\ wpc = "idle"
    /\ wres = "cancelled"
    /\ wlog = <<>>
    /\ find_worktree(catalog, wreq.id) # NoWorktree
    /\ find_worktree(catalog, wreq.id).path = wreq.path
    /\ fs[wreq.path] # 0
    /\ gitWt[fs[wreq.path]].path = wreq.path

-----------------------------------------------------------------------------
(* Properties: the commands of create_worktree *)

IsUnset(c) == c.cmd = "unset_upstream"
Unsets(log) == SelectSeq(log, IsUnset)

\* The remotes the call's `git remote` listed: none when it failed.
ListedRemotes == IF hlog # <<>> /\ hlog[1].cmd = "remote" /\ hlog[1].code = 0 THEN Remotes ELSE {}

\* C25: a create_worktree call issues `branch --unset-upstream <branch>`
\* exactly when new_branch is set, its `worktree add` exited 0 and
\* base_branch starts with "<remote>/" for a listed remote; then once, for
\* the new branch, and after the add.
C25_UnsetUpstreamIffRemoteBase ==
    cw.pc = "done" =>
        /\ Len(Adds(hlog)) = 1
        /\ Len(Unsets(hlog)) <= 1
        /\ Unsets(hlog) # <<>> <=>
            /\ cw.new_branch
            /\ Adds(hlog)[1].code = 0
            /\ \E r \in ListedRemotes : StartsWith(cw.base_branch, <<r, "/">>)
        /\ Unsets(hlog) # <<>> =>
            /\ hlog[Len(hlog)] = Unsets(hlog)[1]
            /\ IsAdd(hlog[Len(hlog) - 1])
            /\ Unsets(hlog)[1].b = cw.branch

\* A new branch from origin/main: the add, then the unset, which took the
\* upstream away.
C25_Witness ==
    /\ cw.pc = "done"
    /\ cw.new_branch
    /\ cw.base_branch = <<"origin", "/", "main">>
    /\ Len(hlog) = 3
    /\ IsAdd(hlog[2]) /\ hlog[2].code = 0
    /\ IsUnset(hlog[3]) /\ hlog[3].code = 0
    /\ gitBr[cw.branch].upstream = NoUpstream

\* C26: a create_worktree call issues one `worktree add`: for a new branch
\* `add -b <branch> <path>` and, when a base is given, `<base>` after it;
\* for an existing branch that starts with no "<remote>/" the plain
\* `add <path> <branch>`; and it raises GitError exactly when that command
\* exited nonzero.
C26_OneAddByBranchPolicy ==
    cw.pc = "done" =>
        /\ Len(Adds(hlog)) = 1
        /\ LET add == Adds(hlog)[1] IN
            /\ add.path = cw.path
            /\ ~add.force
            /\ cw.new_branch =>
                /\ add.b = cw.branch
                /\ add.ref = cw.base_branch
                /\ ~add.track
            /\ (~cw.new_branch /\ ~RemoteQualified(cw.branch)) =>
                /\ add.b = NoRef
                /\ add.ref = cw.branch
                /\ ~add.track
            /\ cw.raised <=> add.code # 0
            /\ cw.code = add.code

\* A new branch from the local base dev, created by the one command
\* `worktree add -b <branch> <path> dev`.
C26_Witness ==
    /\ cw.pc = "done"
    /\ ~cw.raised
    /\ cw.new_branch
    /\ cw.base_branch = <<"dev">>
    /\ Adds(hlog) = <<GitCmd("add", FALSE, FALSE, cw.branch, cw.path, <<"dev">>, 0)>>
    /\ fs[cw.path] # 0
    /\ gitWt[fs[cw.path]].branch = cw.branch

-----------------------------------------------------------------------------
(* Properties: the Catalog against git after a create *)

Created == hpc = "create" /\ hpc' = "idle" /\ hres' = "created"

\* C27: when a create request has succeeded, the branch of the Worktree
\* added to the Catalog is the branch checked out in the worktree git made
\* at its path, whichever `worktree add` the branch policy chose.
C27_CatalogBranchIsCheckedOutBranch ==
    [][Created =>
        LET w == catalog'[Len(catalog')] IN
        /\ fs'[w.path] # 0
        /\ gitWt'[fs'[w.path]].branch = w.branch]_vars

-----------------------------------------------------------------------------
(* Properties: the Catalog after a rename *)

RepairDone == hpc = "rename_repair" /\ hpc' = "idle" /\ ~Failed(hlog', "repair")

\* C28: when the directory rename and the repair of a rename request have
\* both succeeded, the handler ends with the Catalog record carrying the new
\* name and the new path, whether or not the session migration succeeded.
C28_CatalogFollowsRepairedRename ==
    [][RepairDone =>
        LET w == find_worktree(catalog', hreq.id) IN
        w # NoWorktree => w.name = hreq.new_name /\ w.path = rn.new_path]_vars

-----------------------------------------------------------------------------
(* Properties: a delete and a rename of the same worktree *)

\* A rename of a worktree has gone through all its steps and a confirmed
\* delete of the same worktree has ended, in whatever order their steps came.
RenamedAndDeleted ==
    /\ hpc = "idle" /\ hreq.op = "rename" /\ hres = "renamed"
    /\ wpc = "idle" /\ wres \in {"removed", "GitError"}
    /\ wreq.id = hreq.id

\* The paths the worktree has had: the one the worker captured, and the
\* sibling the rename moved it to.
PathsOfRenamed == {wreq.path, Join(Parent(wreq.path), hreq.new_name)}

\* C29: once a delete worker and a rename request for the same worktree
\* have both completed, the stores agree: the worktree is in the Catalog
\* with its directory and git's record at the Catalog's path, or it is in
\* none of the three.
C29_StoresAgreeAfterDeleteAndRename ==
    RenamedAndDeleted =>
        LET w == find_worktree(catalog, hreq.id) IN
        IF w # NoWorktree
        THEN /\ fs[w.path] # 0
             /\ gitWt[fs[w.path]].path = w.path
        ELSE \A p \in PathsOfRenamed :
                /\ fs[p] = 0
                /\ \A k \in Ids : gitWt[k].path # p

-----------------------------------------------------------------------------
(* Properties: paths in the Catalog *)

\* C30: whatever create, rename and delete requests have been handled, no
\* two worktrees of the Catalog have the same path.
C30_CatalogPathsDistinct ==
    \A i, j \in 1 .. Len(catalog) : i # j => catalog[i].path # catalog[j].path

-----------------------------------------------------------------------------
(* Properties: records of the listing kept apart *)

\* Line h of group g belongs to the record that the `worktree` line j starts.
SameRecord(g, j, h) == j < h /\ \A m \in (j + 1) .. h : ~IsWorktreeLine(g[m])

\* info is made of lines of one record of group g.
FromOneRecord(info, g) ==
    \E j \in 1 .. Len(g) :
        /\ IsWorktreeLine(g[j])
        /\ info.path = strip(after_keyword(g[j]))
        /\ \E h \in 1 .. Len(g) :
            SameRecord(g, j, h) /\ IsHeadLine(g[h]) /\ info.head = after_keyword(g[h])
        /\ \/ info.branch = None
           \/ \E b \in 1 .. Len(g) :
                /\ SameRecord(g, j, b)
                /\ IsBranchLine(g[b])
                /\ info.branch = replace_refs_heads(after_keyword(g[b]))

\* C31: every WorktreeInfo that list_worktrees returns has its head and
\* its branch from lines of the group its path is in: a HEAD or branch line
\* behind a blank line is never joined to a path from before it.
C31_HeadAndBranchFromOwnGroup ==
    Returned =>
        \A k \in 1 .. Len(lw.worktrees) :
            \E i \in 1 .. Len(Groups) : FromOneRecord(lw.worktrees[k], Groups[i])

-----------------------------------------------------------------------------
(* Properties: the number the import reports *)

\* The entries of the Catalog that came from the listing.
ImportedEntries == {k \in 1 .. Len(catalog) : \E w \in Linked : catalog[k].path = w.path}

\* C32: the number in the notification 'Imported N worktrees' is the number
\* of Worktree entries the import added to the Catalog.
C32_NotifiedCountIsAddedCount ==
    hres = "imported" => im.notified = Cardinality(ImportedEntries)

-----------------------------------------------------------------------------
(* Properties: the branches list_branches returns *)

\* A line of git's answer that names a branch of a remote of the repository.
RemoteBranch(line) ==
    /\ \E r \in Remotes : StartsWith(line, <<r, "/">>)
    /\ ~endswith_HEAD(line)
LinesOf(text) == {text[i] : i \in 1 .. Len(text)}

\* C33: list_branches returns a sorted list without an entry ending in
\* '/HEAD' and without a bare remote name; a remote branch is in it exactly
\* when include_remote is True, and without include_remote only local
\* branches are.
C33_BranchesSortedAndFiltered ==
    lb.pc = "returned" =>
        /\ \A i, j \in 1 .. Len(lb.result) : i < j => ~str_less(lb.result[j], lb.result[i])
        /\ \A e \in LinesOf(lb.result) :
            /\ ~endswith_HEAD(e)
            /\ ~(\E r \in Remotes : e = <<r>>)
        /\ \A line \in LinesOf(lb.stdout) :
            RemoteBranch(line) => (line \in LinesOf(lb.result) <=> lb.include_remote)
        /\ ~lb.include_remote => \A e \in LinesOf(lb.result) : e \in LinesOf(LocalLines)

-----------------------------------------------------------------------------
(* Properties: CreateWorktreeFromIssueModal *)

\* C34: at most one fetch is outstanding; while one is, a press of the Fetch
\* button posts no FetchRequested; update_branches and fetch_failed each
\* leave the modal not fetching, with the spinner stopped.
C34_OneFetchOutstanding ==
    [][/\ issue_modal'.fetch_requested <= 1
       /\ (issue_modal.pc = "open" /\ issue_modal.fetch_requested > 0
              /\ issue_modal'.last \in {"fetch", "fetch-refused"})
            => issue_modal'.fetch_requested = issue_modal.fetch_requested
       /\ issue_modal'.last \in {"update_branches", "fetch_failed"}
            => ~issue_modal'.is_fetching /\ ~issue_modal'.spinner_timer]_vars
C34_Witness ==
    /\ issue_modal.pc = "open"
    /\ issue_modal.last = "fetch-refused"
    /\ issue_modal.fetch_requested = 1
    /\ issue_modal.spinner_index = 2

-----------------------------------------------------------------------------
(* Properties: AddWorktreeModal *)

\* The name input as it should be read: letters, digits, '-' and '_' only.
Sanitized(raw) ==
    LET Valid(c) == c \in {"a", "b", "-", "_"} IN SelectSeq(raw, Valid)
MayPost(m) ==
    /\ Sanitized(m.raw) # <<>>
    /\ m.branch # <<>>
    /\ ~m.new_branch => m.branch \in m.branches
    /\ \A n \in WtNames : Sanitized(m.raw) = <<n>> => fs[WorktreePath(n)] = 0

\* C36: AddWorktreeModal posts WorktreeCreated only for a non-empty sanitized
\* name, a non-empty branch that is in the branch list when an existing
\* branch is asked for, and a target path that does not exist; otherwise it
\* posts nothing, stays open and shows an error.
C36_PostsOnlyWhatIsValid ==
    [][add_modal.pc = "open" /\ add_modal'.last = "create" /\ add_modal' # add_modal =>
        IF MayPost(add_modal)
        THEN /\ add_modal'.posted =
                    Append(add_modal.posted,
                           [name |-> Sanitized(add_modal.raw), branch |-> add_modal.branch,
                            new_branch |-> add_modal.new_branch])
             /\ add_modal'.pc = "closed"
        ELSE /\ add_modal'.posted = add_modal.posted
             /\ add_modal'.pc = "open"
             /\ add_modal'.error # ""]_vars
C36_Witness ==
    /\ add_modal.pc = "closed"
    /\ add_modal.last = "create"
    /\ add_modal.raw = <<"a", "!">>
    /\ add_modal.posted = <<[name |-> <<"a">>, branch |-> <<"dev">>, new_branch |-> FALSE]>>
    /\ fs[WorktreePath("b")] # 0

-----------------------------------------------------------------------------
(* Properties: one tmux window for a name *)

WindowsNamed(windows, name) == {i \in 1 .. Len(windows) : windows[i].window_name = name}

\* C37: create_editor_window and create_claude_window called for a name
\* whose window ('edit:<name>', 'claude:<name>') exists in the session
\* create no window and send no command, and select that window when they
\* return True; so the session never holds two windows of one such name.
C37_OneWindowPerName ==
    [][tmux'.last.op \in {"edit", "claude"} /\ tmux' # tmux =>
        LET name == <<tmux'.last.op, ":", tmux'.last.name>>
        IN  /\ WindowsNamed(tmux.windows, name) # {} =>
                /\ tmux'.windows = tmux.windows
                /\ tmux'.last.returned => tmux'.selected \in WindowsNamed(tmux.windows, name)
            /\ Cardinality(WindowsNamed(tmux'.windows, name)) <= 1]_vars

-----------------------------------------------------------------------------
(* Properties: settings replaced only behind the write *)

\* C38: save_settings replaces the settings in memory only after the file
\* was written: when creating the directory or writing the file raises, the
\* settings the service returns are the ones it returned before.
C38_SettingsKeptWhenSaveRaises ==
    [][settings'.last.op = "save" /\ settings' # settings =>
        IF settings'.last.raised
        THEN settings'.memory = settings.memory
        ELSE /\ settings'.memory = settings'.last.arg
             /\ settings'.file = [state |-> "written", value |-> settings'.last.arg]]_vars
C38_Witness ==
    /\ settings.last.op = "save"
    /\ settings.last.raised
    /\ settings.file.state = "truncated"
    /\ settings.memory.default_editor = "nvim"
    /\ settings.last.arg.default_editor = "code"

====
